---- MODULE Spec2Model ----
(***************************************************************************)
(* A model of the session-authenticated chat gateway:                      *)
(*   - CookieManager (cookie_manager.py): the persisted multi-profile      *)
(*     credential store (SQLite tables profiles / cookies);                *)
(*   - GeminiClientWrapper (gemini_client.py): the per-profile upstream    *)
(*     connection with its refresh-and-retry policy.                       *)
(***************************************************************************)
EXTENDS Integers, Sequences, FiniteSets, TLC

(***************************************************************************)
(* Bounds of the model.                                                    *)
(***************************************************************************)
\* time.time() runs over 0..MaxTime
MaxTime == 1
\* the expiry timestamp carried by the expiring cookies of the inputs
ExpiresAt == 0
\* longest cookie list handed to save_profile
MaxCookies == 3
\* GeminiClient objects one wrapper creates
MaxConns == 3
\* ChatSession objects one wrapper creates
MaxSessions == 2
\* a reply is made of at most MaxPieces pieces
MaxPieces == 4
\* a resegmented text has at most MaxText words, blanks and stops
MaxText == 6
\* a tool-call stream carries at most MaxCalls calls
MaxCalls == 2
\* the upstream yields at most MaxOutputs outputs
MaxOutputs == 3
\* a request has at most MaxMessages messages
MaxMessages == 3
\* a SessionManager creates at most MaxCreated sessions
MaxCreated == 3
MaxBraces == 12
MaxReplyPieces == 3
MaxParts == 3
MaxAttempts == 3
\* and at most MaxTools tool definitions
MaxTools == 2

(***************************************************************************)
(* Data: CookieData, Profile (cookie_manager.py).                          *)
(***************************************************************************)
\* Python's None where a string is expected (a profile name, a result)
None == "None"
\* Python's None where an object is expected (a Profile, a dict)
NoneObj == [none |-> TRUE]
\* CookieData.expires is None (a session cookie)
NoExpiry == -1

REQUIRED_COOKIES == {"__Secure-1PSID", "__Secure-1PSIDTS"}

CookieNames == REQUIRED_COOKIES \cup {"NID"}

Profiles == {"p1", "p2"}

Browsers == {"chrome"}

\* A CookieData; domain, path, secure and http_only are stored and read back
\* with the value and take part in no decision, so the value stands for them.
Cookie(n, v, e) == [name |-> n, value |-> v, expires |-> e]

\* The cookies callers hand to save_profile
CookieData ==
    { Cookie("__Secure-1PSID", "v1", NoExpiry),
      Cookie("__Secure-1PSID", "v2", ExpiresAt),
      Cookie("__Secure-1PSIDTS", "v1", NoExpiry),
      Cookie("NID", "v1", NoExpiry) }

CookieLists == UNION { [1..n -> CookieData] : n \in 0..MaxCookies }

\* rows of table cookies for one profile: name -> [value, expires]
NoCookies == [n \in {} |-> NoneObj]

\* table profiles with no row
NoProfiles == [p \in {} |-> NoneObj]

Range(s) == { s[i] : i \in DOMAIN s }

VARIABLES
    \* ---- the SQLite database (committed state)
    profiles,       \* table profiles: name -> [browser, created_at, updated_at]
    cookies,        \* table cookies: profile_name -> (name -> [value, expires])
    now,            \* time.time()
    \* ---- the call being observed, its arguments and its result: a
    \*      CookieManager call, a chat-completions request, a reply handed to
    \*      parse_tool_calls, or a stream of a framer
    last,
    \* ---- concurrent callers of one CookieManager
    cm_lock,        \* self._lock: the task holding it, or None
    cm_task,        \* per task: the call it is in and where it stands
    \* ---- one GeminiClientWrapper and the tasks calling it
    client,         \* self.client: a connection of conns, or NoClient
    profile_name,   \* self.profile_name
    chat_sessions,  \* self._chat_sessions: conversation id -> ChatSession
    conns,          \* every GeminiClient the wrapper created, in order
    nsessions,      \* the number of ChatSession objects created so far
    w_task,         \* per task: the call it is in and where it stands
    \* ---- one SessionManager
    sm              \* its cache, its index by user, its current user and session

storeVars == <<profiles, cookies, now>>

cmVars == <<cm_lock, cm_task>>

wVars == <<client, profile_name, chat_sessions, conns, nsessions, w_task>>

vars == <<profiles, cookies, now, last, cm_lock, cm_task,
          client, profile_name, chat_sessions, conns, nsessions, w_task, sm>>

(***************************************************************************)
(* SQL statements of CookieManager, on a database value                    *)
(* db = [profiles |-> ..., cookies |-> ...].                               *)
(***************************************************************************)
Database == [profiles |-> profiles, cookies |-> cookies]

\* SQLite enforces FOREIGN KEY clauses only on a connection that has run
\* PRAGMA foreign_keys = ON; _db_connection opens every connection with
\* aiosqlite.connect(self.db_path) and runs no PRAGMA on it.
ForeignKeysEnforced == FALSE

\* (mutant) INSERT OR REPLACE INTO profiles: the row written anew
UpsertProfile_Replace(db, p, browser, t) ==
    [db EXCEPT !.profiles =
        [q \in DOMAIN db.profiles \cup {p} |->
            IF q # p THEN db.profiles[q]
            ELSE [browser |-> browser, created_at |-> t, updated_at |-> t]]]

\* INSERT INTO profiles ... ON CONFLICT(name) DO UPDATE SET browser, updated_at
UpsertProfile(db, p, browser, t) ==
    [db EXCEPT !.profiles =
        [q \in DOMAIN db.profiles \cup {p} |->
            IF q # p THEN db.profiles[q]
            ELSE IF p \notin DOMAIN db.profiles
            THEN [browser |-> browser, created_at |-> t, updated_at |-> t]
            ELSE [db.profiles[p] EXCEPT !.browser = browser,
                                        !.updated_at = t]]]

\* DELETE FROM cookies WHERE profile_name = ?
DeleteCookies(db, p) == [db EXCEPT !.cookies[p] = NoCookies]

\* one INSERT INTO cookies: the PRIMARY KEY (profile_name, name) rejects a
\* second row of the same name (sqlite3.IntegrityError)
InsertCookie(rows, c) ==
    IF c.name \in DOMAIN rows
    THEN [error |-> "IntegrityError", rows |-> rows]
    ELSE [error |-> None,
          rows  |-> [n \in DOMAIN rows \cup {c.name} |->
                        IF n = c.name
                        THEN [value |-> c.value, expires |-> c.expires]
                        ELSE rows[n]]]

\* executemany(INSERT INTO cookies ...): the rows in list order, up to the
\* first one that is rejected
RECURSIVE InsertMany(_, _)
InsertMany(rows, list) ==
    IF list = <<>> THEN [error |-> None, rows |-> rows]
    ELSE LET r == InsertCookie(rows, Head(list))
         IN  IF r.error # None THEN r ELSE InsertMany(r.rows, Tail(list))

\* DELETE FROM profiles WHERE name = ?; the cookies rows go with it only
\* when the connection enforces the FOREIGN KEY ... ON DELETE CASCADE clause
DeleteProfileRow(db, p, fk) ==
    [profiles |-> [q \in DOMAIN db.profiles \ {p} |-> db.profiles[q]],
     cookies  |-> IF fk /\ p \in DOMAIN db.profiles
                  THEN [db.cookies EXCEPT ![p] = NoCookies]
                  ELSE db.cookies]

(***************************************************************************)
(* CookieManager.save_profile                                              *)
(***************************************************************************)
\* missing = set(REQUIRED_COOKIES) - {c.name for c in cookies}
MissingRequired(list) == REQUIRED_COOKIES \ { c.name : c \in Range(list) }

\* (mutant) the transaction without its DELETE FROM cookies: a merge
SaveTransaction_NoDelete(db, p, list, browser, t) ==
    LET d1  == UpsertProfile(db, p, browser, t)
        ins == InsertMany(d1.cookies[p], list)
    IN  [error |-> ins.error, db |-> [d1 EXCEPT !.cookies[p] = ins.rows]]

\* The transaction of save_profile: the database it commits, or the
\* exception that leaves the transaction uncommitted (rolled back when the
\* connection closes).
SaveTransaction(db, p, list, browser, t) ==
    LET d1  == UpsertProfile(db, p, browser, t)
        d2  == DeleteCookies(d1, p)
        ins == InsertMany(d2.cookies[p], list)
    IN  [error |-> ins.error, db |-> [d2 EXCEPT !.cookies[p] = ins.rows]]

\* (mutant) save_profile without the check of the required cookies
save_profile_Unvalidated(db, p, list, browser, t) ==
    LET txn == SaveTransaction(db, p, list, browser, t)
    IN  IF txn.error # None
        THEN [result |-> txn.error, db |-> db]
        ELSE [result |-> "ok", db |-> txn.db]

\* the outcome of save_profile(profile_name, cookies, browser) at time t:
\* the exception raised or "ok", and the database afterwards
save_profile(db, p, list, browser, t) ==
    IF MissingRequired(list) # {}
    THEN [result |-> "ValueError", db |-> db]
    ELSE LET txn == SaveTransaction(db, p, list, browser, t)
         IN  IF txn.error # None
             THEN [result |-> txn.error, db |-> db]    \* no commit
             ELSE [result |-> "ok", db |-> txn.db]     \* db.commit()

(***************************************************************************)
(* CookieManager.delete_profile                                            *)
(***************************************************************************)
delete_profile(db, p, fk) ==
    [result |-> p \in DOMAIN db.profiles,    \* cursor.rowcount > 0
     db     |-> DeleteProfileRow(db, p, fk)]

(***************************************************************************)
(* CookieManager.load_profile: profiles LEFT JOIN cookies                  *)
(***************************************************************************)
load_profile(db, p) ==
    IF p \notin DOMAIN db.profiles THEN NoneObj
    ELSE [name       |-> p,
          browser    |-> db.profiles[p].browser,
          cookies    |-> db.cookies[p],
          created_at |-> db.profiles[p].created_at,
          updated_at |-> db.profiles[p].updated_at]

(***************************************************************************)
(* CookieManager.get_gemini_cookies                                        *)
(***************************************************************************)
\* SELECT name, value, expires FROM cookies
\*   WHERE profile_name = ? AND name IN (REQUIRED_COOKIES)
RequiredRows(db, p) ==
    [n \in DOMAIN db.cookies[p] \cap REQUIRED_COOKIES |-> db.cookies[p][n]]

\* (mutant) a cookie counted as expired at the very second it expires
RowExpired_AtExpiry(row, t) == row.expires # NoExpiry /\ t >= row.expires

\* expires is not None and current_time > expires
RowExpired(row, t) == row.expires # NoExpiry /\ t > row.expires

get_gemini_cookies(db, p, t) ==
    LET rows == RequiredRows(db, p)
    IN  IF DOMAIN rows = {} THEN NoneObj
        ELSE IF REQUIRED_COOKIES \ DOMAIN rows # {} THEN NoneObj
        ELSE IF \E n \in DOMAIN rows : RowExpired(rows[n], t) THEN NoneObj
        ELSE [n \in DOMAIN rows |-> rows[n].value]

(***************************************************************************)
(* GeminiClientWrapper.__init__                                            *)
(***************************************************************************)
WTasks == {"a", "b"}

\* self.client is None
NoClient == 0

NoSessions == [k \in {} |-> NoneObj]

NoSession == [conn |-> NoClient, serial |-> 0]

WIdle == [op |-> "idle", pc |-> "idle", name |-> None, conv |-> None,
          closing |-> NoClient, mine |-> NoClient, conn |-> NoClient,
          list |-> <<>>, browser |-> None, at |-> 0,
          session |-> NoSession, result |-> None,
          \* what the call did so far
          attempts |-> 0, retries |-> 0, refreshes |-> 0, reinits |-> 0,
          first_failed |-> FALSE, had_profile |-> FALSE,
          refresh_ok |-> None, reinit_ok |-> None]

InitWrapperVars ==
    /\ client = NoClient
    /\ profile_name = None
    /\ chat_sessions = NoSessions
    /\ conns = <<>>
    /\ nsessions = 0
    /\ w_task = [t \in WTasks |-> WIdle]

(***************************************************************************)
(* SessionManager of session_manager.py.  self._sessions is a TTLCache:    *)
(* an entry is in it from its insertion until it expires, is evicted or is *)
(* deleted.  A session is one entry [session_id, user_id, expires].        *)
(***************************************************************************)
Users == {"u1", "u2"}

\* ttl, in steps of the clock
Ttl == 1

\* max_sessions
CacheSize == 2

\* SessionManager.__init__
InitSessionManager ==
    sm = [sessions |-> {}, user_sessions |-> {}, current_user_id |-> None,
          current_session_id |-> 0, created |-> 0]

(***************************************************************************)
(* Concurrent callers of one CookieManager (asyncio tasks).  A task is     *)
(* suspended at every await; the steps below are the runs between awaits.  *)
(***************************************************************************)
CmTasks == {"t1", "t2"}

\* the cookie lists the concurrent callers save
CmLists ==
    { <<Cookie("__Secure-1PSID", "v1", NoExpiry),
        Cookie("__Secure-1PSIDTS", "v1", NoExpiry)>>,
      <<Cookie("__Secure-1PSID", "v2", ExpiresAt),
        Cookie("__Secure-1PSIDTS", "v1", NoExpiry),
        Cookie("NID", "v1", NoExpiry)>>,
      <<Cookie("__Secure-1PSID", "v1", NoExpiry),
        Cookie("__Secure-1PSIDTS", "v1", NoExpiry),
        Cookie("__Secure-1PSID", "v2", ExpiresAt)>>,
      <<Cookie("NID", "v1", NoExpiry)>> }

\* the profile the concurrent callers contend for
CmProfiles == {"p1"}

WriteOps == {"save_profile", "delete_profile"}

ReadOps == {"load_profile", "list_profiles", "get_gemini_cookies"}

\* where a task stands inside `async with self._db_connection(write=True)`
WriteSection ==
    {"upsert", "delete_cookies", "insert", "delete_row", "commit", "exit"}

CmIdle == [op |-> "idle", pc |-> "idle", profile |-> None, list |-> <<>>,
           browser |-> None, at |-> 0, txn |-> NoneObj, result |-> None,
           beside_writer |-> FALSE]

\* (mutant) _db_connection that never takes self._lock
CanEnter_NoLock(write) == TRUE

\* _db_connection: `async with self._lock` lets a writer in only when the
\* lock is free; a reader connects without the lock
CanEnter(write) == ~write \/ cm_lock = None

\* save_profile up to its first await: the required-cookie check, now
CmCallSave(t, p, list, b) ==
    /\ cm_task[t].pc = "idle"
    /\ cm_task' = [cm_task EXCEPT ![t] =
          IF MissingRequired(list) # {}
          THEN [CmIdle EXCEPT !.op = "save_profile", !.pc = "done",
                              !.profile = p, !.result = "ValueError"]
          ELSE [CmIdle EXCEPT !.op = "save_profile", !.pc = "lock",
                              !.profile = p, !.list = list, !.browser = b,
                              !.at = now]]
    /\ UNCHANGED <<storeVars, last, cm_lock, wVars, sm>>

CmCallDelete(t, p) ==
    /\ cm_task[t].pc = "idle"
    /\ cm_task' = [cm_task EXCEPT ![t] =
          [CmIdle EXCEPT !.op = "delete_profile", !.pc = "lock",
                         !.profile = p]]
    /\ UNCHANGED <<storeVars, last, cm_lock, wVars, sm>>

\* a writer passes `async with self._lock, aiosqlite.connect(...)`
CmEnterWrite(t) ==
    /\ cm_task[t].pc = "lock"
    /\ CanEnter(TRUE)
    /\ cm_lock' = t
    /\ cm_task' = [cm_task EXCEPT ![t].pc =
          IF cm_task[t].op = "save_profile" THEN "upsert" ELSE "delete_row"]
    /\ UNCHANGED <<storeVars, last, wVars, sm>>

\* INSERT INTO profiles ... ON CONFLICT: the transaction starts here, on
\* the committed database
CmUpsert(t) ==
    /\ cm_task[t].pc = "upsert"
    /\ cm_task' = [cm_task EXCEPT
          ![t].txn = UpsertProfile(Database, cm_task[t].profile,
                                   cm_task[t].browser, cm_task[t].at),
          ![t].pc = "delete_cookies"]
    /\ UNCHANGED <<storeVars, last, cm_lock, wVars, sm>>

\* (mutant) the DELETE FROM cookies committed on its own, outside the
\* transaction of the save
CmDeleteCookies_Autocommit(t) ==
    /\ cm_task[t].pc = "delete_cookies"
    /\ cookies' = DeleteCookies(Database, cm_task[t].profile).cookies
    /\ cm_task' = [cm_task EXCEPT
          ![t].txn = DeleteCookies(cm_task[t].txn, cm_task[t].profile),
          ![t].pc = "insert"]
    /\ UNCHANGED <<profiles, now, last, cm_lock, wVars, sm>>

CmDeleteCookies(t) ==
    /\ cm_task[t].pc = "delete_cookies"
    /\ cm_task' = [cm_task EXCEPT
          ![t].txn = DeleteCookies(cm_task[t].txn, cm_task[t].profile),
          ![t].pc = "insert"]
    /\ UNCHANGED <<storeVars, last, cm_lock, wVars, sm>>

\* executemany: an IntegrityError leaves the `async with` uncommitted
CmInsert(t) ==
    /\ cm_task[t].pc = "insert"
    /\ LET me  == cm_task[t]
           ins == InsertMany(me.txn.cookies[me.profile], me.list)
       IN  cm_task' = [cm_task EXCEPT ![t] =
             IF ins.error # None
             THEN [me EXCEPT !.txn = NoneObj, !.result = ins.error,
                             !.pc = "exit"]
             ELSE [me EXCEPT !.txn.cookies[me.profile] = ins.rows,
                             !.pc = "commit"]]
    /\ UNCHANGED <<storeVars, last, cm_lock, wVars, sm>>

\* DELETE FROM profiles WHERE name = ?
CmDeleteRow(t) ==
    /\ cm_task[t].pc = "delete_row"
    /\ cm_task' = [cm_task EXCEPT
          ![t].txn = DeleteProfileRow(Database, cm_task[t].profile,
                                      ForeignKeysEnforced),
          ![t].result = cm_task[t].profile \in DOMAIN profiles,
          ![t].pc = "commit"]
    /\ UNCHANGED <<storeVars, last, cm_lock, wVars, sm>>

\* await db.commit()
CmCommit(t) ==
    /\ cm_task[t].pc = "commit"
    /\ profiles' = cm_task[t].txn.profiles
    /\ cookies' = cm_task[t].txn.cookies
    /\ cm_task' = [cm_task EXCEPT
          ![t].txn = NoneObj,
          ![t].result = IF cm_task[t].op = "save_profile" THEN "ok"
                        ELSE cm_task[t].result,
          ![t].pc = "exit"]
    /\ UNCHANGED <<now, last, cm_lock, wVars, sm>>

\* leaving the `async with`: the connection closes, the lock is released
CmExit(t) ==
    /\ cm_task[t].pc = "exit"
    /\ cm_lock' = None
    /\ cm_task' = [cm_task EXCEPT ![t].pc = "done"]
    /\ UNCHANGED <<storeVars, last, wVars, sm>>

\* a read operation connects (no lock) ...
CmCallRead(t, op, p) ==
    /\ cm_task[t].pc = "idle"
    /\ CanEnter(FALSE)
    /\ cm_task' = [cm_task EXCEPT ![t] =
          [CmIdle EXCEPT !.op = op, !.pc = "select", !.profile = p]]
    /\ UNCHANGED <<storeVars, last, cm_lock, wVars, sm>>

\* SELECT COUNT(c.name) ... GROUP BY p.name of list_profiles
list_profiles(db) ==
    { [name |-> q, browser |-> db.profiles[q].browser,
       created_at |-> db.profiles[q].created_at,
       updated_at |-> db.profiles[q].updated_at,
       cookie_count |-> Cardinality(DOMAIN db.cookies[q])] :
      q \in DOMAIN db.profiles }

\* ... and runs its SELECT on the committed database
CmSelect(t) ==
    /\ cm_task[t].pc = "select"
    /\ LET me == cm_task[t]
       IN  cm_task' = [cm_task EXCEPT ![t] =
             [me EXCEPT
                !.pc = "done",
                !.beside_writer = cm_lock # None,
                !.result =
                   CASE me.op = "load_profile" ->
                            load_profile(Database, me.profile)
                     [] me.op = "get_gemini_cookies" ->
                            get_gemini_cookies(Database, me.profile, now)
                     [] OTHER -> list_profiles(Database)]]
    /\ UNCHANGED <<storeVars, last, cm_lock, wVars, sm>>

\* the caller takes the result or the exception
CmReturn(t) ==
    /\ cm_task[t].pc = "done"
    /\ cm_task' = [cm_task EXCEPT ![t] = CmIdle]
    /\ UNCHANGED <<storeVars, last, cm_lock, wVars, sm>>

CmTick ==
    /\ now < MaxTime
    /\ now' = now + 1
    /\ UNCHANGED <<profiles, cookies, last, cmVars, wVars, sm>>

NextStoreConc ==
    \/ \E t \in CmTasks, p \in CmProfiles, list \in CmLists, b \in Browsers :
          CmCallSave(t, p, list, b)
    \/ \E t \in CmTasks, p \in CmProfiles : CmCallDelete(t, p)
    \/ \E t \in CmTasks, op \in ReadOps, p \in CmProfiles :
          CmCallRead(t, op, p)
    \/ \E t \in CmTasks : CmEnterWrite(t)
    \/ \E t \in CmTasks : CmUpsert(t)
    \/ \E t \in CmTasks : CmDeleteCookies(t)
    \/ \E t \in CmTasks : CmInsert(t)
    \/ \E t \in CmTasks : CmDeleteRow(t)
    \/ \E t \in CmTasks : CmCommit(t)
    \/ \E t \in CmTasks : CmExit(t)
    \/ \E t \in CmTasks : CmSelect(t)
    \/ \E t \in CmTasks : CmReturn(t)
    \/ CmTick

(***************************************************************************)
(* SpecStore: the CookieManager operations called one at a time.  A write  *)
(* runs under self._lock inside one transaction, so a completed call is    *)
(* one step from committed state to committed state.                       *)
(***************************************************************************)
\* the cookies a list stores when every name occurs once
AsRows(list) ==
    [n \in { c.name : c \in Range(list) } |->
        LET c == CHOOSE c \in Range(list) : c.name = n
        IN  [value |-> c.value, expires |-> c.expires]]

HasDuplicate(list) ==
    \E i, j \in DOMAIN list : i # j /\ list[i].name = list[j].name

\* The record of a call: the operation, the profile it names, for
\* save_profile the names supplied, whether a name is supplied twice, the
\* rows the list describes and the names stored before that it omits, and
\* what the call returned or raised.
NoCall == [op |-> "none", profile |-> None, names |-> {}, duplicate |-> FALSE,
           given |-> NoCookies, dropped |-> {}, result |-> None]

InitStore ==
    /\ profiles = NoProfiles
    /\ cookies = [p \in Profiles |-> NoCookies]
    /\ now = 0
    /\ last = NoCall
    /\ cm_lock = None
    /\ cm_task = [t \in CmTasks |-> CmIdle]
    /\ InitWrapperVars
    /\ InitSessionManager

Commit(db) ==
    /\ profiles' = db.profiles
    /\ cookies' = db.cookies

SaveProfile(p, list, browser) ==
    LET r == save_profile(Database, p, list, browser, now)
    IN  /\ Commit(r.db)
        /\ last' = [op |-> "save_profile", profile |-> p,
                    names |-> { c.name : c \in Range(list) },
                    duplicate |-> HasDuplicate(list),
                    given |-> IF HasDuplicate(list) THEN NoCookies
                              ELSE AsRows(list),
                    dropped |-> IF r.result = "ok"
                                THEN DOMAIN cookies[p] \
                                        { c.name : c \in Range(list) }
                                ELSE {},
                    result |-> r.result]
        /\ UNCHANGED <<now, cmVars, wVars, sm>>

DeleteProfile(p) ==
    LET r == delete_profile(Database, p, ForeignKeysEnforced)
    IN  /\ Commit(r.db)
        /\ last' = [NoCall EXCEPT !.op = "delete_profile", !.profile = p,
                                  !.result = r.result]
        /\ UNCHANGED <<now, cmVars, wVars, sm>>

LoadProfile(p) ==
    /\ last' = [NoCall EXCEPT !.op = "load_profile", !.profile = p,
                              !.result = load_profile(Database, p)]
    /\ UNCHANGED <<storeVars, cmVars, wVars, sm>>

GetGeminiCookies(p) ==
    /\ last' = [NoCall EXCEPT !.op = "get_gemini_cookies", !.profile = p,
                              !.result = get_gemini_cookies(Database, p, now)]
    /\ UNCHANGED <<storeVars, cmVars, wVars, sm>>

Tick ==
    /\ now < MaxTime
    /\ now' = now + 1
    /\ last' = NoCall
    /\ UNCHANGED <<profiles, cookies, cmVars, wVars, sm>>

NextStore ==
    \/ \E p \in Profiles, list \in CookieLists, b \in Browsers :
          SaveProfile(p, list, b)
    \/ \E p \in Profiles : DeleteProfile(p)
    \/ \E p \in Profiles : LoadProfile(p)
    \/ \E p \in Profiles : GetGeminiCookies(p)
    \/ Tick

SpecStore == InitStore /\ [][NextStore]_vars

SpecStoreConc == InitStore /\ [][NextStoreConc]_vars

(***************************************************************************)
(* GeminiClientWrapper under concurrent callers (asyncio tasks of the      *)
(* server's request handlers).  A step is the run of one task between two  *)
(* awaits.  The CookieManager calls the wrapper awaits act on the          *)
(* committed database at the moment they run.                              *)
(***************************************************************************)
\* what a call on the wrapper alone leaves as it is
envVars == <<profiles, cookies, now, last, cm_lock, cm_task, sm>>

ConvIds == {"c1"}

\* the profiles the profile endpoints create while the wrapper is in use
SavedProfiles == {"p1"}

\* the tasks that serve the chat endpoint
ChatTasks == {"a"}

\* what CookieManager.extract_cookies reads from the browser
Jars ==
    { <<Cookie("__Secure-1PSID", "v1", NoExpiry),
        Cookie("__Secure-1PSIDTS", "v1", NoExpiry)>>,
      <<Cookie("__Secure-1PSID", "v2", ExpiresAt),
        Cookie("__Secure-1PSIDTS", "v1", NoExpiry)>>,
      <<Cookie("__Secure-1PSID", "v1", NoExpiry),
        Cookie("__Secure-1PSIDTS", "", NoExpiry)>>,
      <<Cookie("NID", "v1", NoExpiry)>>,
      <<>> }

Active(t) == w_task[t].pc \notin {"idle", "done"}

\* a call that may create a GeminiClient starts only while the model has
\* room for one more
RoomForClient ==
    Len(conns) + Cardinality({ t \in WTasks : Active(t) /\ w_task[t].mine = NoClient })
        < MaxConns

\* a call that may create `mine` ChatSessions starts only while the model
\* has room for them and for the session of every retry still to come
RoomForSessions(mine) ==
    nsessions + mine
        + Cardinality({ t \in WTasks : Active(t) /\ w_task[t].op = "chat"
                                          /\ w_task[t].pc # "chat2" })
        <= MaxSessions

SetTask(t, rec) == w_task' = [w_task EXCEPT ![t] = rec]

\* the call ends: it returns r or raises r, and its locals are gone
Done(me, r) ==
    [me EXCEPT !.pc = "done", !.result = r,
               !.closing = NoClient, !.mine = NoClient, !.conn = NoClient,
               !.list = <<>>, !.browser = None, !.at = 0,
               !.session = NoSession]

\* GeminiClient(...) followed by client.init(...) up to its await
NewClient(name) == Append(conns, [status |-> "initing", profile |-> name])

\* client.close() has been called on c
Closing(cs, c) == [cs EXCEPT ![c].status = "closing"]

\* client.close() on c has returned (or raised, which close() swallows)
Closed(cs, c) == [cs EXCEPT ![c].status = "closed"]

\* (mutant) the body of init_with_profile / init_auto from `await
\* self.close()` on, with the close left out
CloseThenCreate_NoClose(t, me) ==
    /\ conns' = NewClient(me.name)
    /\ client' = Len(conns) + 1
    /\ chat_sessions' = NoSessions
    /\ SetTask(t, [me EXCEPT !.pc = "init_wait", !.mine = Len(conns) + 1])
    /\ UNCHANGED <<profile_name, nsessions>>

\* `await self.close()` then `self.client = GeminiClient(...)`, `await
\* self.client.init(...)`: close() suspends only when there is a client
CloseThenCreate(t, me) ==
    IF client = NoClient
    THEN /\ conns' = NewClient(me.name)
         /\ client' = Len(conns) + 1
         /\ chat_sessions' = NoSessions
         /\ SetTask(t, [me EXCEPT !.pc = "init_wait", !.mine = Len(conns) + 1])
         /\ UNCHANGED <<profile_name, nsessions>>
    ELSE /\ conns' = Closing(conns, client)
         /\ SetTask(t, [me EXCEPT !.pc = "close_wait", !.closing = client])
         /\ UNCHANGED <<client, profile_name, chat_sessions, nsessions>>

\* generate / chat after `await self._try_refresh()` returned r: the retry
\* on the new client, or `raise` of the first error
AfterTryRefresh(me, r) ==
    IF r = "False" THEN Done([me EXCEPT !.reinit_ok = r], "e1")
    ELSE IF client = NoClient      \* self.client is None: AttributeError
    THEN Done([me EXCEPT !.reinit_ok = r, !.retries = @ + 1], "AttributeError")
    ELSE [me EXCEPT !.reinit_ok = r, !.retries = @ + 1, !.attempts = @ + 1,
                    !.conn = client,
                    !.session = IF me.op = "chat"
                                THEN [conn |-> client, serial |-> nsessions + 1]
                                ELSE me.session,
                    !.pc = IF me.op = "chat" THEN "chat2" ELSE "gen2"]

\* init_with_profile returns r to its caller: the endpoint, or _try_refresh
ReturnFromInit(me, r) ==
    IF me.op \in {"generate", "chat"} THEN AfterTryRefresh(me, r)
    ELSE Done(me, r)

\* the sessions created by the retry of chat
SessionsAfter(me) == IF me.pc = "chat2" THEN nsessions + 1 ELSE nsessions

\* the frame of init_with_profile(name), called as op
InitEntry(name, op) ==
    [WIdle EXCEPT !.op = op, !.pc = "init_cookies", !.name = name]

\* init_with_profile up to `await self.cookie_manager.get_gemini_cookies`
init_with_profile(t, name, op) ==
    /\ UNCHANGED envVars
    /\ w_task[t].pc = "idle"
    /\ RoomForClient
    /\ SetTask(t, InitEntry(name, op))
    /\ UNCHANGED <<client, profile_name, chat_sessions, conns, nsessions>>

WInitWithProfile(t, name) == init_with_profile(t, name, "init_with_profile")

\* get_current_profile(): return self.profile_name
get_current_profile == profile_name

\* return await self.init_with_profile(profile_name)
switch_profile(t, name) == init_with_profile(t, name, "switch_profile")

\* (mutant) credentials accepted whatever their values
CookiesUsable_AnyValue(ck) == ck # NoneObj

\* the credentials init_with_profile accepts: a dict with both values
\* non-empty
CookiesUsable(ck) ==
    /\ ck # NoneObj
    /\ ck["__Secure-1PSID"] # ""
    /\ ck["__Secure-1PSIDTS"] # ""

\* get_gemini_cookies(None) finds no row
CookiesOf(name) ==
    IF name = None THEN NoneObj ELSE get_gemini_cookies(Database, name, now)

\* init_with_profile from the cookies to the first await after them
WInitCookies(t) ==
    /\ UNCHANGED envVars
    /\ w_task[t].pc = "init_cookies"
    /\ LET me == w_task[t]
       IN  IF ~CookiesUsable(CookiesOf(me.name))
           THEN /\ SetTask(t, ReturnFromInit(me, "False"))
                /\ nsessions' = SessionsAfter(ReturnFromInit(me, "False"))
                /\ UNCHANGED <<client, profile_name, chat_sessions, conns>>
           ELSE CloseThenCreate(t, me)

\* init_auto up to its first await
WInitAuto(t) ==
    /\ UNCHANGED envVars
    /\ w_task[t].pc = "idle"
    /\ RoomForClient
    /\ CloseThenCreate(t, [WIdle EXCEPT !.op = "init_auto"])

\* close() called by itself (the server's shutdown)
WClose(t) ==
    /\ UNCHANGED envVars
    /\ w_task[t].pc = "idle"
    /\ IF client = NoClient
       THEN /\ chat_sessions' = NoSessions
            /\ SetTask(t, Done([WIdle EXCEPT !.op = "close"], "ok"))
            /\ UNCHANGED <<client, profile_name, conns, nsessions>>
       ELSE /\ conns' = Closing(conns, client)
            /\ SetTask(t, [WIdle EXCEPT !.op = "close", !.pc = "close_wait",
                                        !.closing = client])
            /\ UNCHANGED <<client, profile_name, chat_sessions, nsessions>>

\* `await self.client.close()` is over: the rest of close() and, inside
\* an init, the new client up to `await self.client.init(...)`
WCloseDone(t) ==
    /\ UNCHANGED envVars
    /\ w_task[t].pc = "close_wait"
    /\ LET me == w_task[t]
       IN  /\ chat_sessions' = NoSessions
           /\ IF me.op = "close"
              THEN /\ conns' = Closed(conns, me.closing)
                   /\ client' = NoClient
                   /\ SetTask(t, Done(me, "ok"))
              ELSE /\ conns' = Append(Closed(conns, me.closing),
                                      [status |-> "initing", profile |-> me.name])
                   /\ client' = Len(conns) + 1
                   /\ SetTask(t, [me EXCEPT !.pc = "init_wait",
                                            !.mine = Len(conns) + 1])
           /\ UNCHANGED <<profile_name, nsessions>>

\* `await self.client.init(timeout=30, auto_close=False)` is over
WInitDone(t, ok) ==
    /\ UNCHANGED envVars
    /\ w_task[t].pc = "init_wait"
    /\ LET me == w_task[t]
       IN  IF ok
           THEN /\ conns' = [conns EXCEPT ![me.mine].status =
                                IF @ = "initing" THEN "open" ELSE @]
                /\ profile_name' = me.name
                /\ chat_sessions' = NoSessions
                /\ SetTask(t, ReturnFromInit(me, "True"))
                /\ nsessions' = SessionsAfter(ReturnFromInit(me, "True"))
                /\ UNCHANGED client
           ELSE /\ conns' = [conns EXCEPT ![me.mine].status =
                                IF @ = "initing" THEN "failed" ELSE @]
                /\ client' = NoClient
                /\ SetTask(t, ReturnFromInit(me, "False"))
                /\ UNCHANGED <<profile_name, chat_sessions, nsessions>>

\* generate up to `await self.client.generate_content(...)`
WGenerate(t) ==
    /\ UNCHANGED envVars
    /\ w_task[t].pc = "idle"
    /\ RoomForClient
    /\ SetTask(t, IF client = NoClient
                  THEN Done([WIdle EXCEPT !.op = "generate"], "RuntimeError")
                  ELSE [WIdle EXCEPT !.op = "generate", !.pc = "gen1",
                                     !.attempts = 1, !.conn = client])
    /\ UNCHANGED <<client, profile_name, chat_sessions, conns, nsessions>>

\* _try_refresh up to `await self.cookie_manager.refresh_profile(...)`,
\* which runs up to its `await self.load_profile(...)`
TryRefresh(me) ==
    IF profile_name = None
    THEN Done([me EXCEPT !.first_failed = TRUE], "e1")
    ELSE [me EXCEPT !.first_failed = TRUE, !.had_profile = TRUE,
                    !.refreshes = @ + 1, !.name = profile_name,
                    !.pc = "rf_load"]

\* the first generate_content is over
WGenerateDone(t, ok) ==
    /\ UNCHANGED envVars
    /\ w_task[t].pc = "gen1"
    /\ SetTask(t, IF ok THEN Done(w_task[t], "ok") ELSE TryRefresh(w_task[t]))
    /\ UNCHANGED <<client, profile_name, chat_sessions, conns, nsessions>>

\* refresh_profile: load_profile is over
WRefreshLoad(t) ==
    /\ UNCHANGED envVars
    /\ w_task[t].pc = "rf_load"
    /\ LET me == w_task[t]
           pr == load_profile(Database, me.name)
       IN  SetTask(t, IF pr = NoneObj
                      THEN Done([me EXCEPT !.refresh_ok = "False"], "e1")
                      ELSE [me EXCEPT !.browser = pr.browser,
                                      !.pc = "rf_extract"])
    /\ UNCHANGED <<client, profile_name, chat_sessions, conns, nsessions>>

\* (mutant) refresh_profile whose save_profile stores whatever non-empty
\* list was extracted
WRefreshExtract_Unchecked(t, raised, jar) ==
    /\ UNCHANGED envVars
    /\ w_task[t].pc = "rf_extract"
    /\ LET me == w_task[t]
       IN  SetTask(t, IF raised \/ jar = <<>>
                      THEN Done([me EXCEPT !.refresh_ok = "False"], "e1")
                      ELSE [me EXCEPT !.list = jar, !.at = now,
                                      !.pc = "rf_save"])
    /\ UNCHANGED <<client, profile_name, chat_sessions, conns, nsessions>>

\* refresh_profile: extract_cookies is over (it raised, or gave a list);
\* save_profile runs up to `async with self._db_connection(write=True)`
WRefreshExtract(t, raised, jar) ==
    /\ UNCHANGED envVars
    /\ w_task[t].pc = "rf_extract"
    /\ LET me == w_task[t]
       IN  SetTask(t, IF raised \/ jar = <<>> \/ MissingRequired(jar) # {}
                      THEN Done([me EXCEPT !.refresh_ok = "False"], "e1")
                      ELSE [me EXCEPT !.list = jar, !.at = now,
                                      !.pc = "rf_save"])
    /\ UNCHANGED <<client, profile_name, chat_sessions, conns, nsessions>>

\* refresh_profile: save_profile's transaction; then _try_refresh calls
\* init_with_profile(self.profile_name), which runs up to its first await
WRefreshSave(t) ==
    /\ UNCHANGED <<now, last, cm_lock, cm_task, sm>>
    /\ w_task[t].pc = "rf_save"
    /\ LET me  == w_task[t]
           txn == SaveTransaction(Database, me.name, me.list, me.browser, me.at)
       IN  IF txn.error # None
           THEN /\ SetTask(t, Done([me EXCEPT !.refresh_ok = "False"], "e1"))
                /\ UNCHANGED <<profiles, cookies>>
           ELSE /\ Commit(txn.db)
                /\ SetTask(t, [me EXCEPT !.refresh_ok = "True",
                                         !.reinits = @ + 1,
                                         !.name = profile_name,
                                         !.list = <<>>,
                                         !.pc = "init_cookies"])
    /\ UNCHANGED <<client, profile_name, chat_sessions, conns, nsessions>>

\* (mutant) a call that ends without storing its session
StoreSession_Dropped(me) == chat_sessions

\* self._chat_sessions[conv_id] = session
StoreSession(me) ==
    [k \in DOMAIN chat_sessions \cup {me.conv} |->
        IF k = me.conv THEN me.session ELSE chat_sessions[k]]

\* chat up to `await session.send_message(message)`: the session of
\* _get_or_create_session, and conv_id = conversation_id or str(id(session))
WChat(t, conv) ==
    /\ UNCHANGED envVars
    /\ w_task[t].pc = "idle"
    /\ RoomForClient
    /\ RoomForSessions(IF conv # None /\ conv \in DOMAIN chat_sessions
                       THEN 1 ELSE 2)
    /\ LET reuse == conv # None /\ conv \in DOMAIN chat_sessions
           sess  == IF reuse THEN chat_sessions[conv]
                    ELSE [conn |-> client, serial |-> nsessions + 1]
       IN  IF client = NoClient
           THEN /\ SetTask(t, Done([WIdle EXCEPT !.op = "chat"], "RuntimeError"))
                /\ UNCHANGED nsessions
           ELSE /\ SetTask(t, [WIdle EXCEPT
                       !.op = "chat", !.pc = "chat1", !.attempts = 1,
                       !.session = sess, !.conn = sess.conn,
                       !.conv = IF conv # None THEN conv
                                ELSE ToString(sess.serial)])
                /\ nsessions' = IF reuse THEN nsessions ELSE nsessions + 1
    /\ UNCHANGED <<client, profile_name, chat_sessions, conns>>

\* the first send_message is over
WChatDone(t, ok) ==
    /\ UNCHANGED envVars
    /\ w_task[t].pc = "chat1"
    /\ IF ok
       THEN /\ chat_sessions' = StoreSession(w_task[t])
            /\ SetTask(t, Done(w_task[t], "ok"))
       ELSE /\ SetTask(t, TryRefresh(w_task[t]))
            /\ UNCHANGED chat_sessions
    /\ UNCHANGED <<client, profile_name, conns, nsessions>>

\* the send_message of the retry, on the session of the new client, is over
WChatRetryDone(t, ok) ==
    /\ UNCHANGED envVars
    /\ w_task[t].pc = "chat2"
    /\ IF ok
       THEN /\ chat_sessions' = StoreSession(w_task[t])
            /\ SetTask(t, Done(w_task[t], "ok"))
       ELSE /\ SetTask(t, Done(w_task[t], "e2"))
            /\ UNCHANGED chat_sessions
    /\ UNCHANGED <<client, profile_name, conns, nsessions>>

\* (mutant) a failed retry that goes back to _try_refresh
WRetryDone_RefreshAgain(t, ok) ==
    /\ UNCHANGED envVars
    /\ w_task[t].pc = "gen2"
    /\ SetTask(t, IF ok THEN Done(w_task[t], "ok") ELSE TryRefresh(w_task[t]))
    /\ UNCHANGED <<client, profile_name, chat_sessions, conns, nsessions>>

\* generate_stream up to the first `async for` step on
\* self.client.generate_content_stream(...)
WGenerateStream(t) ==
    /\ UNCHANGED envVars
    /\ w_task[t].pc = "idle"
    /\ SetTask(t, IF client = NoClient
                  THEN Done([WIdle EXCEPT !.op = "generate_stream"], "RuntimeError")
                  ELSE [WIdle EXCEPT !.op = "generate_stream", !.pc = "gs1",
                                     !.attempts = 1, !.conn = client])
    /\ UNCHANGED <<client, profile_name, chat_sessions, conns, nsessions>>

\* the stream is exhausted, or it raised: the exception leaves generate_stream
WGenerateStreamDone(t, ok) ==
    /\ UNCHANGED envVars
    /\ w_task[t].pc = "gs1"
    /\ SetTask(t, IF ok THEN Done(w_task[t], "ok")
                  ELSE Done([w_task[t] EXCEPT !.first_failed = TRUE,
                                !.had_profile = (profile_name # None)], "e1"))
    /\ UNCHANGED <<client, profile_name, chat_sessions, conns, nsessions>>

\* chat_stream up to the first `async for` step on
\* session.send_message_stream(message)
WChatStream(t, conv) ==
    /\ UNCHANGED envVars
    /\ w_task[t].pc = "idle"
    /\ RoomForSessions(IF conv # None /\ conv \in DOMAIN chat_sessions
                       THEN 0 ELSE 1)
    /\ LET reuse == conv # None /\ conv \in DOMAIN chat_sessions
           sess  == IF reuse THEN chat_sessions[conv]
                    ELSE [conn |-> client, serial |-> nsessions + 1]
       IN  IF client = NoClient
           THEN /\ SetTask(t, Done([WIdle EXCEPT !.op = "chat_stream"],
                                   "RuntimeError"))
                /\ UNCHANGED nsessions
           ELSE /\ SetTask(t, [WIdle EXCEPT
                       !.op = "chat_stream", !.pc = "cs1", !.attempts = 1,
                       !.session = sess, !.conn = sess.conn,
                       !.conv = IF conv # None THEN conv
                                ELSE ToString(sess.serial)])
                /\ nsessions' = IF reuse THEN nsessions ELSE nsessions + 1
    /\ UNCHANGED <<client, profile_name, chat_sessions, conns>>

\* the stream is exhausted and the session is stored, or it raised
WChatStreamDone(t, ok) ==
    /\ UNCHANGED envVars
    /\ w_task[t].pc = "cs1"
    /\ IF ok
       THEN /\ chat_sessions' = StoreSession(w_task[t])
            /\ SetTask(t, Done(w_task[t], "ok"))
       ELSE /\ SetTask(t, Done([w_task[t] EXCEPT !.first_failed = TRUE,
                                   !.had_profile = (profile_name # None)], "e1"))
            /\ UNCHANGED chat_sessions
    /\ UNCHANGED <<client, profile_name, conns, nsessions>>

\* the awaits of generate, where a cancellation can be delivered
GenerateAwaits == {"gen1", "rf_load", "rf_extract", "rf_save", "init_cookies",
                   "close_wait", "init_wait", "gen2"}

\* (mutant) a handler that takes every exception, CancelledError included
Handles_BaseException(kind) == TRUE

\* `except Exception`: asyncio.CancelledError derives from BaseException
Handles(kind) == kind # "CancelledError"

\* asyncio.wait_for(gemini_client.generate(...), timeout=30.0) expires: the
\* task of generate gets CancelledError at the await it stands at, and the
\* handler gets TimeoutError once generate has let it through
WTimeout(t) ==
    /\ UNCHANGED envVars
    /\ w_task[t].op = "generate"
    /\ w_task[t].pc \in GenerateAwaits
    /\ SetTask(t, IF w_task[t].pc = "gen1" /\ Handles("CancelledError")
                  THEN TryRefresh(w_task[t])
                  ELSE Done(w_task[t], "TimeoutError"))
    /\ UNCHANGED <<client, profile_name, chat_sessions, conns, nsessions>>

\* the retried generate_content is over
WRetryDone(t, ok) ==
    /\ UNCHANGED envVars
    /\ w_task[t].pc = "gen2"
    /\ SetTask(t, Done(w_task[t], IF ok THEN "ok" ELSE "e2"))
    /\ UNCHANGED <<client, profile_name, chat_sessions, conns, nsessions>>

\* the caller takes the result or the exception
WReturn(t) ==
    /\ UNCHANGED envVars
    /\ w_task[t].pc = "done"
    /\ SetTask(t, WIdle)
    /\ UNCHANGED <<client, profile_name, chat_sessions, conns, nsessions>>

\* a profile is created or replaced through the profile endpoints
\* (create_profile_from_browser, import_profile)
WSaveProfile(p, jar, b) ==
    /\ LET r == save_profile(Database, p, jar, b, now)
       IN  /\ r.result = "ok"
           /\ r.db # Database
           /\ Commit(r.db)
    /\ UNCHANGED <<now, last, cm_lock, cm_task, wVars, sm>>

NextWrapper ==
    \/ \E t \in WTasks, n \in Profiles : WInitWithProfile(t, n)
    \/ \E t \in WTasks, n \in Profiles : switch_profile(t, n)
    \/ \E t \in WTasks : WInitCookies(t)
    \/ \E t \in WTasks : WInitAuto(t)
    \/ \E t \in WTasks : WClose(t)
    \/ \E t \in WTasks : WCloseDone(t)
    \/ \E t \in WTasks, ok \in BOOLEAN : WInitDone(t, ok)
    \/ \E t \in WTasks : WGenerate(t)
    \/ \E t \in WTasks, ok \in BOOLEAN : WGenerateDone(t, ok)
    \/ \E t \in WTasks : WRefreshLoad(t)
    \/ \E t \in WTasks, raised \in BOOLEAN, jar \in Jars :
          WRefreshExtract(t, raised, jar)
    \/ \E t \in WTasks : WRefreshSave(t)
    \/ \E t \in WTasks, ok \in BOOLEAN : WRetryDone(t, ok)
    \/ \E t \in ChatTasks, conv \in ConvIds \cup {None} : WChat(t, conv)
    \/ \E t \in ChatTasks, ok \in BOOLEAN : WChatDone(t, ok)
    \/ \E t \in ChatTasks, ok \in BOOLEAN : WChatRetryDone(t, ok)
    \/ \E t \in WTasks : WReturn(t)
    \/ \E p \in SavedProfiles, jar \in Jars, b \in Browsers : WSaveProfile(p, jar, b)

\* an empty database and a fresh wrapper, at a time when the cookies that
\* carry an expiry have expired
InitWrapper ==
    /\ profiles = NoProfiles
    /\ cookies = [p \in Profiles |-> NoCookies]
    /\ now = MaxTime
    /\ last = NoCall
    /\ cm_lock = None
    /\ cm_task = [t \in CmTasks |-> CmIdle]
    /\ InitWrapperVars
    /\ InitSessionManager

SpecWrapper == InitWrapper /\ [][NextWrapper]_vars

\* the tasks of the requests that generate, chat and stream
SessionTasks == {"a"}

\* the tasks of the requests that only replace or close the connection
AdminTasks == {"b"}

\* the wrapper serving generate, chat and the two streams, with the calls
\* that replace or close its connection
NextSession ==
    \/ \E t \in SessionTasks, n \in SavedProfiles : WInitWithProfile(t, n)
    \/ \E t \in SessionTasks : WInitCookies(t)
    \/ \E t \in SessionTasks \cup AdminTasks : WInitAuto(t)
    \/ \E t \in SessionTasks \cup AdminTasks : WClose(t)
    \/ \E t \in SessionTasks \cup AdminTasks : WCloseDone(t)
    \/ \E t \in SessionTasks \cup AdminTasks, ok \in BOOLEAN : WInitDone(t, ok)
    \/ \E t \in SessionTasks : WGenerate(t)
    \/ \E t \in SessionTasks, ok \in BOOLEAN : WGenerateDone(t, ok)
    \/ \E t \in SessionTasks : WRefreshLoad(t)
    \/ \E t \in SessionTasks, raised \in BOOLEAN, jar \in Jars :
          WRefreshExtract(t, raised, jar)
    \/ \E t \in SessionTasks : WRefreshSave(t)
    \/ \E t \in SessionTasks, ok \in BOOLEAN : WRetryDone(t, ok)
    \/ \E t \in SessionTasks : WTimeout(t)
    \/ \E t \in SessionTasks, conv \in ConvIds \cup {None} : WChat(t, conv)
    \/ \E t \in SessionTasks, ok \in BOOLEAN : WChatDone(t, ok)
    \/ \E t \in SessionTasks, ok \in BOOLEAN : WChatRetryDone(t, ok)
    \/ \E t \in SessionTasks : WGenerateStream(t)
    \/ \E t \in SessionTasks, ok \in BOOLEAN : WGenerateStreamDone(t, ok)
    \/ \E t \in SessionTasks, conv \in ConvIds \cup {None} : WChatStream(t, conv)
    \/ \E t \in SessionTasks, ok \in BOOLEAN : WChatStreamDone(t, ok)
    \/ \E t \in SessionTasks \cup AdminTasks : WReturn(t)
    \/ \E p \in SavedProfiles, jar \in Jars, b \in Browsers : WSaveProfile(p, jar, b)

SpecSession == InitWrapper /\ [][NextSession]_vars

(***************************************************************************)
(* The two handlers of POST /v1/chat/completions: server.py and            *)
(* endpoints/openai.py.  `last` holds the request being handled; an        *)
(* exception travels from the statement that raised it through the except  *)
(* clauses around it, one step per try statement.                          *)
(***************************************************************************)
Handlers == {"server", "endpoints"}

NoStatus == 0

\* fastapi.HTTPException(status_code=...)
HTTPException(code) == [class |-> "HTTPException", status |-> code]

\* any other exception object
Raised(class) == [class |-> class, status |-> NoStatus]

NoException == Raised("none")

\* the request enters the handler
HRequest(h, stream, tools, include_usage) ==
    /\ last.op = "chat_completions" => last.pc = "responded"
    /\ last' = [op |-> "chat_completions", handler |-> h, pc |-> "ensure",
                stream |-> stream, tools |-> tools,
                include_usage |-> include_usage, exc |-> NoException,
                kind |-> None, body |-> None, status |-> NoStatus]
    /\ UNCHANGED <<storeVars, cmVars, wVars, sm>>

InHandler(pc) == last.op = "chat_completions" /\ last.pc = pc

\* the handler answers: the response it returned, or the HTTPException that
\* left it (any other exception is answered 500)
Respond(exc, body, kind) ==
    [last EXCEPT !.pc = "responded", !.exc = exc, !.body = body, !.kind = kind,
                 !.status = IF exc = NoException THEN 200
                            ELSE IF exc.class = "HTTPException" THEN exc.status
                            ELSE 500]

\* if not await gemini_client.ensure_initialized():
HEnsure(ready) ==
    /\ InHandler("ensure")
    /\ last' = [last EXCEPT !.pc = IF ready THEN "prepare" ELSE "init_auto"]
    /\ UNCHANGED <<storeVars, cmVars, wVars, sm>>

\* success = await gemini_client.init_auto(); 400 when it is False
HInitAuto(success) ==
    /\ InHandler("init_auto")
    /\ last' = IF success THEN [last EXCEPT !.pc = "prepare"]
               ELSE Respond(HTTPException(400), None, "init")
    /\ UNCHANGED <<storeVars, cmVars, wVars, sm>>

\* from the prompt to the generation: endpoints streams at once when asked
\* to; server enters its try and checks gemini_client.client
HPrepare(has_client) ==
    /\ InHandler("prepare")
    /\ last' =
         IF last.handler = "endpoints"
         THEN IF last.stream THEN Respond(NoException, "sse_native", None)
              ELSE [last EXCEPT !.pc = "generate"]
         ELSE IF has_client THEN [last EXCEPT !.pc = "generate"]
              ELSE [last EXCEPT !.pc = "outer_try", !.exc = HTTPException(503),
                                !.kind = "not_ready"]
    /\ UNCHANGED <<storeVars, cmVars, wVars, sm>>

\* await asyncio.wait_for(<the generation>, timeout=30.0)
HGenerate(outcome) ==
    /\ InHandler("generate")
    /\ last' =
         CASE outcome = "ok" -> [last EXCEPT !.pc = "parse"]
           [] outcome = "raise" ->
                [last EXCEPT !.pc = "inner_try", !.exc = Raised("UpstreamError"),
                             !.kind = "upstream"]
           [] outcome = "timeout" ->
                [last EXCEPT !.pc = "inner_try", !.exc = Raised("TimeoutError"),
                             !.kind = "timeout"]
    /\ UNCHANGED <<storeVars, cmVars, wVars, sm>>

\* the try statement around wait_for: `except TimeoutError` raises 504; in
\* endpoints the same statement has `except Exception`, which raises 502
HInnerTry ==
    /\ InHandler("inner_try")
    /\ last' =
         IF last.exc.class = "TimeoutError"
         THEN IF last.handler = "endpoints"
              THEN Respond(HTTPException(504), None, last.kind)
              ELSE [last EXCEPT !.pc = "outer_try", !.exc = HTTPException(504)]
         ELSE IF last.handler = "endpoints"
              THEN Respond(HTTPException(502), None, last.kind)
              ELSE [last EXCEPT !.pc = "outer_try"]
    /\ UNCHANGED <<storeVars, cmVars, wVars, sm>>

\* server's outer try: `except Exception as exc: raise HTTPException(502)`;
\* HTTPException derives from Exception
HOuterTry ==
    /\ InHandler("outer_try")
    /\ last' = IF Handles(last.exc.class)
               THEN Respond(HTTPException(502), None, last.kind)
               ELSE Respond(last.exc, None, last.kind)
    /\ UNCHANGED <<storeVars, cmVars, wVars, sm>>

\* after the generation: parse_tool_calls when the request has tools, then
\* the response
HParse(found) ==
    /\ InHandler("parse")
    /\ LET tool_calls == last.tools /\ found
       IN  last' =
             IF last.handler = "endpoints"
             THEN Respond(NoException,
                          IF tool_calls THEN "tool_call_response" ELSE "completion",
                          None)
             ELSE Respond(NoException,
                          IF last.stream
                          THEN IF tool_calls THEN "sse_tool" ELSE "sse_text"
                          ELSE "completion",
                          None)
    /\ UNCHANGED <<storeVars, cmVars, wVars, sm>>

NextHandlers ==
    \/ \E h \in Handlers, stream \in BOOLEAN, tools \in BOOLEAN,
          include_usage \in BOOLEAN :
          HRequest(h, stream, tools, include_usage)
    \/ \E ready \in BOOLEAN : HEnsure(ready)
    \/ \E success \in BOOLEAN : HInitAuto(success)
    \/ \E has_client \in BOOLEAN : HPrepare(has_client)
    \/ \E outcome \in {"ok", "raise", "timeout"} : HGenerate(outcome)
    \/ HInnerTry
    \/ HOuterTry
    \/ \E found \in BOOLEAN : HParse(found)

SpecHandlers == InitStore /\ [][NextHandlers]_vars

(***************************************************************************)
(* POST /profiles/create and POST /profiles/switch, in server.py and in    *)
(* endpoints/profiles.py (the two files hold the same handler bodies).     *)
(***************************************************************************)
Endpoints == {"create", "switch"}

\* ProfileCreateReq.browser; ProfileSwitchReq has no browser
BrowserTypes == {"chrome", "firefox", "all"}

\* create_profile_from_browser catches Exception and returns False;
\* switch_profile reads the store before its own try statement
Outcomes(endpoint) ==
    IF endpoint = "create" THEN {"True", "False", "cancel"}
    ELSE {"True", "False", "raise", "cancel"}

PRequest(h, endpoint, name, browser) ==
    /\ last.op = "profiles" => last.pc = "responded"
    /\ (endpoint = "switch") <=> (browser = None)
    /\ last' = [op |-> "profiles", handler |-> h, endpoint |-> endpoint,
                name |-> name, browser |-> browser, pc |-> "depends",
                exc |-> NoException, kind |-> None, body |-> None,
                status |-> NoStatus]
    /\ UNCHANGED <<storeVars, cmVars, wVars, sm>>

InEndpoint(pc) == last.op = "profiles" /\ last.pc = pc

\* Depends(get_cookie_manager) / Depends(get_gemini_client): 503 when the
\* service is None, raised before the handler body
PDepends(initialized) ==
    /\ InEndpoint("depends")
    /\ last' = IF initialized THEN [last EXCEPT !.pc = "call"]
               ELSE Respond(HTTPException(503), None, "not_initialized")
    /\ UNCHANGED <<storeVars, cmVars, wVars, sm>>

\* success = await ...; if not success: raise HTTPException(400); return
\* {"status": "success", ...}: all of it inside the try statement
PCall(outcome) ==
    /\ InEndpoint("call")
    /\ outcome \in Outcomes(last.endpoint)
    /\ last' =
         CASE outcome = "True" -> Respond(NoException, "success", None)
           [] outcome = "False" ->
                [last EXCEPT !.pc = "try", !.exc = HTTPException(400),
                             !.kind = "unsuccessful"]
           [] outcome = "raise" ->
                [last EXCEPT !.pc = "try", !.exc = Raised("UpstreamError"),
                             !.kind = "raised"]
           [] outcome = "cancel" ->
                [last EXCEPT !.pc = "try", !.exc = Raised("CancelledError"),
                             !.kind = "cancelled"]
    /\ UNCHANGED <<storeVars, cmVars, wVars, sm>>

\* create: except ValueError -> 400, except Exception -> 500;
\* switch: except Exception -> 500.  HTTPException derives from Exception
\* and not from ValueError.
PTry ==
    /\ InEndpoint("try")
    /\ last' =
         IF last.endpoint = "create" /\ last.exc.class = "ValueError"
         THEN Respond(HTTPException(400), None, last.kind)
         ELSE IF Handles(last.exc.class)
              THEN Respond(HTTPException(500), None, last.kind)
              ELSE Respond(last.exc, None, last.kind)
    /\ UNCHANGED <<storeVars, cmVars, wVars, sm>>

NextProfiles ==
    \/ \E h \in Handlers, endpoint \in Endpoints, name \in Profiles,
          browser \in BrowserTypes \cup {None} :
          PRequest(h, endpoint, name, browser)
    \/ \E initialized \in BOOLEAN : PDepends(initialized)
    \/ \E outcome \in {"True", "False", "raise", "cancel"} : PCall(outcome)
    \/ PTry

SpecProfiles == InitStore /\ [][NextProfiles]_vars

(***************************************************************************)
(* The tool-call extractor: tool_parsing.py and openai_transforms.py.      *)
(* A text is a sequence of characters of a JSON whose lexemes are one      *)
(* character wide: "x" prose, " " whitespace, "{" and "}", "K" the key     *)
(* "tool_calls" with its colon, "F" a code fence, and the values           *)
(*   "L"  a list of one well-formed call,                                  *)
(*   "M"  a list of one call without id and with an object as arguments,   *)
(*   "S"  a string,                                                        *)
(*   "N"  a list of one call whose id is null.                             *)
(* Positions count from 0 as in Python.                                    *)
(***************************************************************************)
Values == {"L", "M", "S", "N"}

\* max_fallback_attempts of tool_parsing.py
MaxFallbackAttempts == 10

\* the chunk length of generate_sse_response
ChunkLength == 50

\* the letters of a word of the resegmented texts
WordLength == 25

\* text[a:b]
Slice(text, a, b) ==
    LET lo == IF a < 0 THEN 0 ELSE a
        hi == IF b > Len(text) THEN Len(text) ELSE b
    IN  IF hi <= lo THEN <<>> ELSE SubSeq(text, lo + 1, hi)

\* text[i]
At(text, i) == text[i + 1]

\* sub occurs in text at position i
OccursAt(text, sub, i) ==
    /\ i >= 0
    /\ i + Len(sub) <= Len(text)
    /\ SubSeq(text, i + 1, i + Len(sub)) = sub

\* text.find(sub, start)
Find(text, sub, start) ==
    LET hits == { i \in start..Len(text) : OccursAt(text, sub, i) }
    IN  IF hits = {} THEN -1 ELSE CHOOSE i \in hits : \A j \in hits : i <= j

\* text.rfind(sub, 0, end)
RFind(text, sub, end) ==
    LET hits == { i \in 0..end : OccursAt(text, sub, i) /\ i + Len(sub) <= end }
    IN  IF hits = {} THEN -1 ELSE CHOOSE i \in hits : \A j \in hits : i >= j

\* text.strip()
RECURSIVE LStrip(_)
LStrip(text) ==
    IF text # <<>> /\ Head(text) = " " THEN LStrip(Tail(text)) ELSE text

RECURSIVE RStrip(_)
RStrip(text) ==
    IF text # <<>> /\ text[Len(text)] = " "
    THEN RStrip(SubSeq(text, 1, Len(text) - 1)) ELSE text

Strip(text) == RStrip(LStrip(text))

JSONDecodeError == [ok |-> FALSE, end |-> -1, has_key |-> FALSE, val |-> "none"]

\* the members of an object from position j on, up to its closing brace;
\* val is the value of "tool_calls" read so far
RECURSIVE Members(_, _, _, _)
Members(text, j, has_key, val) ==
    IF j >= Len(text) THEN JSONDecodeError
    ELSE IF At(text, j) = " " THEN Members(text, j + 1, has_key, val)
    ELSE IF At(text, j) = "}"
         THEN [ok |-> TRUE, end |-> j + 1, has_key |-> has_key, val |-> val]
    ELSE IF At(text, j) = "K"
         THEN LET v == LStrip(Slice(text, j + 1, Len(text)))
                  at == Len(text) - Len(v)
              IN  IF v # <<>> /\ Head(v) \in Values
                  THEN Members(text, at + 1, TRUE, Head(v))
                  ELSE JSONDecodeError
    ELSE JSONDecodeError

\* json.JSONDecoder().raw_decode(text, idx): the object and the position in
\* text where it ends
raw_decode(text, idx) ==
    IF idx < Len(text) /\ At(text, idx) = "{"
    THEN Members(text, idx + 1, FALSE, "none")
    ELSE JSONDecodeError

NoText == <<"none">>

\* the two copies of the extractor
Parsers == {"tool_parsing", "openai_transforms"}

\* what an extraction returns, with the position of the decode that
\* produced it (at, end) and whether it came out of the repair pass
Extracted(json_str, at, end, repaired) ==
    [json_str |-> json_str, at |-> at, end |-> end, repaired |-> repaired]

NotExtracted == Extracted(NoText, -1, -1, FALSE)

\* the members json_repair reads from a fragment that json rejects: it goes
\* on to the closing brace, or stops where the object breaks off
RECURSIVE Salvage(_, _, _)
Salvage(fragment, j, val) ==
    IF j >= Len(fragment) THEN val
    ELSE IF At(fragment, j) = " " THEN Salvage(fragment, j + 1, val)
    ELSE IF At(fragment, j) = "K"
         THEN LET v == LStrip(Slice(fragment, j + 1, Len(fragment)))
                  at == Len(fragment) - Len(v)
              IN  IF v # <<>> /\ Head(v) \in Values
                  THEN Salvage(fragment, at + 1, Head(v))
                  ELSE val
    ELSE val

\* _repair_json_fragment(fragment): json_repair writes the object out
\* again, or (recovers = FALSE) produces nothing holding the key
repair_json_fragment(fragment, recovers) ==
    LET val == Salvage(fragment, 1, "none")
    IN  IF recovers /\ val # "none" THEN <<"{", "K", val, "}">> ELSE NoText

\* the fallback loop over the braces of the text
RECURSIVE Fallback(_, _, _, _, _)
Fallback(parser, text, start, attempts, recovers) ==
    LET brace_idx == Find(text, <<"{">>, start)
        dec == raw_decode(text, brace_idx)
        repaired == repair_json_fragment(Slice(text, brace_idx, Len(text)), recovers)
    IN  IF start >= Len(text) THEN NotExtracted
        ELSE IF parser = "tool_parsing" /\ attempts >= MaxFallbackAttempts
             THEN NotExtracted
        ELSE IF brace_idx < 0 THEN NotExtracted
        ELSE IF dec.ok /\ dec.has_key
             THEN Extracted(Slice(text, brace_idx, brace_idx + dec.end),
                            brace_idx, dec.end, FALSE)
        ELSE IF ~dec.ok /\ parser = "tool_parsing" /\ repaired # NoText
             THEN Extracted(repaired, brace_idx, -1, TRUE)
        ELSE Fallback(parser, text, brace_idx + 1, attempts + 1, recovers)

\* where _extract_json_with_tool_calls starts its first decode
tool_calls_pos(text) == Find(text, <<"K">>, 0)

start_pos(text) == RFind(text, <<"{">>, tool_calls_pos(text))

\* _extract_json_with_tool_calls(text)
extract_json_with_tool_calls(parser, text, recovers) ==
    LET dec == raw_decode(text, start_pos(text))
        repaired == repair_json_fragment(Slice(text, start_pos(text), Len(text)),
                                         recovers)
    IN  IF tool_calls_pos(text) < 0 THEN NotExtracted
        ELSE IF start_pos(text) >= 0 /\ dec.ok /\ dec.has_key
             THEN Extracted(Slice(text, start_pos(text), start_pos(text) + dec.end),
                            start_pos(text), dec.end, FALSE)
        ELSE IF start_pos(text) >= 0 /\ ~dec.ok /\ parser = "tool_parsing"
                /\ repaired # NoText
             THEN Extracted(repaired, start_pos(text), -1, TRUE)
        ELSE Fallback(parser, text, 0, 0, recovers)

NoSpan == <<-1, -1>>

\* the match of ```(?:json)?\s*([\s\S]*?)``` in text: the first fence and
\* the next one after it
code_block_match(text) ==
    LET open == Find(text, <<"F">>, 0)
        close == IF open < 0 THEN -1 ELSE Find(text, <<"F">>, open + 1)
    IN  IF close < 0 THEN NoSpan ELSE <<open, close + 1>>

\* _find_tool_call_json(text): json_str, from_block, block_span
find_tool_call_json(parser, text, recovers) ==
    LET direct == extract_json_with_tool_calls(parser, text, recovers)
        span == code_block_match(text)
        block_content == Strip(Slice(text, span[1] + 1, span[2] - 1))
        inner == extract_json_with_tool_calls(parser, block_content, recovers)
    IN  IF direct.json_str # NoText
        THEN [found |-> direct, from_block |-> FALSE, block_span |-> NoSpan]
        ELSE IF span = NoSpan \/ Find(block_content, <<"K">>, 0) < 0
             THEN [found |-> NotExtracted, from_block |-> FALSE, block_span |-> NoSpan]
        ELSE [found |-> inner, from_block |-> TRUE, block_span |-> span]

\* a ToolCall built from one element of "tool_calls"
ToolCall(id, arguments) == [id |-> id, type |-> "function", arguments |-> arguments]

\* _parse_tool_calls_data(data), by the value of data["tool_calls"]: the
\* list it returns, or the exception it raises
parse_tool_calls_data(val) ==
    CASE val = "L" -> [raised |-> None, tool_calls |-> <<ToolCall("given", "string")>>]
      [] val = "M" -> [raised |-> None,
                       tool_calls |-> <<ToolCall("synthesized", "serialized")>>]
      [] val = "S" -> [raised |-> "AttributeError", tool_calls |-> <<>>]
      [] val = "N" -> [raised |-> "ValidationError", tool_calls |-> <<>>]

\* json.loads(json_str) / json_repair.loads(json_str)
loads(parser, json_str, recovers) ==
    LET dec == raw_decode(json_str, 0)
        val == Salvage(json_str, 1, "none")
    IN  IF dec.ok /\ Strip(Slice(json_str, dec.end, Len(json_str))) = <<>>
        THEN dec
        ELSE IF parser = "tool_parsing" /\ recovers /\ Head(json_str) = "{"
             THEN [ok |-> TRUE, end |-> -1, has_key |-> val # "none", val |-> val]
        ELSE JSONDecodeError

\* the exceptions the except clause of parse_tool_calls names;
\* pydantic's ValidationError is a ValueError
Caught(parser, raised) ==
    \/ raised \in {"JSONDecodeError", "KeyError", "TypeError"}
    \/ parser = "tool_parsing" /\ raised \in {"ValueError", "ValidationError"}

Parsed(raised, tool_calls, remaining_text) ==
    [raised |-> raised, tool_calls |-> tool_calls, remaining_text |-> remaining_text]

\* parse_tool_calls(text)
parse_tool_calls(parser, text, recovers) ==
    LET f == find_tool_call_json(parser, text, recovers)
        json_str == f.found.json_str
        data == loads(parser, json_str, recovers)
        built == parse_tool_calls_data(data.val)
        at == Find(text, json_str, 0)
        remaining_text ==
            IF f.from_block
            THEN Strip(Slice(text, 0, f.block_span[1])
                       \o Slice(text, f.block_span[2], Len(text)))
            ELSE IF at >= 0
                 THEN Strip(Slice(text, 0, at)
                            \o Slice(text, at + Len(json_str), Len(text)))
            ELSE Strip(text)
    IN  IF text = <<>> THEN Parsed(None, <<>>, <<>>)
        ELSE IF json_str = NoText THEN Parsed(None, <<>>, text)
        ELSE IF ~data.ok \/ ~data.has_key THEN Parsed(None, <<>>, text)
        ELSE IF built.raised # None
             THEN IF Caught(parser, built.raised)
                  THEN Parsed(None, <<>>, text)
                  ELSE Parsed(built.raised, <<>>, <<>>)
        ELSE IF built.tool_calls # <<>> THEN Parsed(None, built.tool_calls, remaining_text)
        ELSE Parsed(None, <<>>, text)

\* the model's replies: prose, whitespace, fences, mentions of the key,
\* and objects, put one after another
Pieces ==
    { <<"x">>, <<" ">>, <<"F">>, <<"K">>, <<"{", "}">>,
      <<"{", "K", "L", "}">>, <<"{", "K", "M", "}">>,
      <<"{", "K", "S", "}">>, <<"{", "K", "N", "}">>,
      <<"{", "K", "L">> }

RECURSIVE Flatten(_)
Flatten(pieces) ==
    IF pieces = <<>> THEN <<>> ELSE Head(pieces) \o Flatten(Tail(pieces))

Texts == { Flatten(ps) : ps \in UNION { [1..k -> Pieces] : k \in 0..MaxPieces } }

InitParse ==
    /\ profiles = NoProfiles
    /\ cookies = [p \in Profiles |-> NoCookies]
    /\ now = 0
    /\ last \in { [op |-> "text", text |-> text] : text \in Texts }
    /\ cm_lock = None
    /\ cm_task = [t \in CmTasks |-> CmIdle]
    /\ InitWrapperVars
    /\ InitSessionManager

\* tool_calls, text = parse_tool_calls(text)
ParseToolCalls(parser, recovers) ==
    /\ last.op = "text"
    /\ parser = "openai_transforms" => ~recovers
    /\ last' = [op |-> "parse_tool_calls", parser |-> parser,
                recovers |-> recovers, text |-> last.text,
                result |-> parse_tool_calls(parser, last.text, recovers)]
    /\ UNCHANGED <<storeVars, cmVars, wVars, sm>>

NextParse == \E parser \in Parsers, recovers \in BOOLEAN : ParseToolCalls(parser, recovers)

SpecParse == InitParse /\ [][NextParse]_vars

(***************************************************************************)
(* _extract_json_with_tool_calls as a step machine: the backward decode,   *)
(* then one step per iteration of the fallback loop.  `decodes` counts the *)
(* calls of decoder.raw_decode.                                            *)
(***************************************************************************)
\* n opening braces
Braces(n) == [i \in 1..n |-> "{"]

\* texts with many braces before a mention of the key
ScanTexts ==
    { Braces(n) \o tail :
        n \in 0..MaxBraces,
        tail \in { <<"K">>, <<"x", "K">>, <<"K", "L", "}">>, <<"}", "K", "L">> } }

InitScan ==
    /\ profiles = NoProfiles
    /\ cookies = [p \in Profiles |-> NoCookies]
    /\ now = 0
    /\ last \in { [op |-> "scan_text", text |-> text] : text \in ScanTexts }
    /\ cm_lock = None
    /\ cm_task = [t \in CmTasks |-> CmIdle]
    /\ InitWrapperVars
    /\ InitSessionManager

Scan(parser, recovers, text, pc, start, attempts, decodes, found) ==
    [op |-> "scan", parser |-> parser, recovers |-> recovers, text |-> text,
     pc |-> pc, start |-> start, attempts |-> attempts, decodes |-> decodes,
     found |-> found]

\* from the entry to the fallback loop: text.find('"tool_calls"'), the
\* rfind of "{" before it and the decode there
ScanEnter(parser, recovers) ==
    /\ last.op = "scan_text"
    /\ parser = "openai_transforms" => ~recovers
    /\ LET text == last.text
           dec == raw_decode(text, start_pos(text))
           repaired == repair_json_fragment(
                           Slice(text, start_pos(text), Len(text)), recovers)
       IN  last' =
             IF tool_calls_pos(text) < 0
             THEN Scan(parser, recovers, text, "returned", 0, 0, 0, FALSE)
             ELSE IF start_pos(text) < 0
             THEN Scan(parser, recovers, text, "loop", 0, 0, 0, FALSE)
             ELSE IF dec.ok /\ dec.has_key
             THEN Scan(parser, recovers, text, "returned", 0, 0, 1, TRUE)
             ELSE IF ~dec.ok /\ parser = "tool_parsing" /\ repaired # NoText
             THEN Scan(parser, recovers, text, "returned", 0, 0, 1, TRUE)
             ELSE Scan(parser, recovers, text, "loop", 0, 0, 1, FALSE)
    /\ UNCHANGED <<storeVars, cmVars, wVars, sm>>

\* one test of the while condition and, when it holds, one iteration
ScanStep ==
    /\ last.op = "scan"
    /\ last.pc = "loop"
    /\ LET text == last.text
           brace_idx == Find(text, <<"{">>, last.start)
           dec == raw_decode(text, brace_idx)
           repaired == repair_json_fragment(
                           Slice(text, brace_idx, Len(text)), last.recovers)
       IN  last' =
             IF last.start >= Len(text) THEN [last EXCEPT !.pc = "returned"]
             ELSE IF last.parser = "tool_parsing"
                     /\ last.attempts >= MaxFallbackAttempts
             THEN [last EXCEPT !.pc = "returned"]
             ELSE IF brace_idx < 0 THEN [last EXCEPT !.pc = "returned"]
             ELSE IF dec.ok /\ dec.has_key
             THEN [last EXCEPT !.pc = "returned", !.decodes = @ + 1,
                               !.found = TRUE]
             ELSE IF ~dec.ok /\ last.parser = "tool_parsing" /\ repaired # NoText
             THEN [last EXCEPT !.pc = "returned", !.decodes = @ + 1,
                               !.found = TRUE]
             ELSE [last EXCEPT !.start = brace_idx + 1, !.attempts = @ + 1,
                               !.decodes = @ + 1]
    /\ UNCHANGED <<storeVars, cmVars, wVars, sm>>

NextScan ==
    \/ \E parser \in Parsers, recovers \in BOOLEAN : ScanEnter(parser, recovers)
    \/ ScanStep

SpecScan == InitScan /\ [][NextScan]_vars

(***************************************************************************)
(* The stream framers: generate_sse_response and generate_sse_tool_response *)
(* of server.py, _stream_gemini_sse of endpoints/openai.py.  A text is a    *)
(* sequence of "w" (a word of WordLength letters), " " and ".".             *)
(***************************************************************************)
\* len(text)
RECURSIVE TextLength(_)
TextLength(text) ==
    IF text = <<>> THEN 0
    ELSE (IF Head(text) = "w" THEN WordLength ELSE 1) + TextLength(Tail(text))

\* the length of the run of c that text starts with
RECURSIVE RunLength(_, _)
RunLength(text, c) ==
    IF text # <<>> /\ Head(text) = c THEN 1 + RunLength(Tail(text), c) ELSE 0

\* the length of the match of [.!?]+\s+ at the start of text, 0 if none
SeparatorAt(text) ==
    LET dots == RunLength(text, ".")
        blanks == RunLength(Slice(text, dots, Len(text)), " ")
    IN  IF dots > 0 /\ blanks > 0 THEN dots + blanks ELSE 0

\* re.split(r"([.!?]+\s+)", text), part being the piece read so far
RECURSIVE Split(_, _)
Split(text, part) ==
    IF text = <<>> THEN <<part>>
    ELSE IF SeparatorAt(text) > 0
         THEN <<part, Slice(text, 0, SeparatorAt(text))>>
              \o Split(Slice(text, SeparatorAt(text), Len(text)), <<>>)
    ELSE Split(Tail(text), Append(part, Head(text)))

\* part.strip().endswith((".", "!", "?"))
EndsSentence(part) ==
    Strip(part) # <<>> /\ Strip(part)[Len(Strip(part))] = "."

\* (mutant) a loop that emits what is left over even when it is blank
RECURSIVE Sentences_KeepsBlank(_, _)
Sentences_KeepsBlank(parts, current_chunk) ==
    IF parts = <<>>
    THEN IF current_chunk # <<>> THEN <<current_chunk>> ELSE <<>>
    ELSE LET filled == current_chunk \o Head(parts)
         IN  IF (TextLength(filled) >= ChunkLength \/ EndsSentence(Head(parts)))
                /\ Strip(filled) # <<>>
             THEN <<filled>> \o Sentences_KeepsBlank(Tail(parts), <<>>)
             ELSE Sentences_KeepsBlank(Tail(parts), filled)

\* the loop over the sentence parts, with the chunk being filled
RECURSIVE Sentences(_, _)
Sentences(parts, current_chunk) ==
    IF parts = <<>>
    THEN IF Strip(current_chunk) # <<>> THEN <<current_chunk>> ELSE <<>>
    ELSE LET filled == current_chunk \o Head(parts)
         IN  IF (TextLength(filled) >= ChunkLength \/ EndsSentence(Head(parts)))
                /\ Strip(filled) # <<>>
             THEN <<filled>> \o Sentences(Tail(parts), <<>>)
             ELSE Sentences(Tail(parts), filled)

\* text.split(), word being the word read so far
RECURSIVE Words(_, _)
Words(text, word) ==
    IF text = <<>> THEN IF word = <<>> THEN <<>> ELSE <<word>>
    ELSE IF Head(text) = " "
         THEN (IF word = <<>> THEN <<>> ELSE <<word>>) \o Words(Tail(text), <<>>)
    ELSE Words(Tail(text), Append(word, Head(text)))

\* the fallback loop over the words
RECURSIVE Packed(_, _)
Packed(words, current_chunk) ==
    IF words = <<>>
    THEN IF Strip(current_chunk) # <<>> THEN <<Strip(current_chunk)>> ELSE <<>>
    ELSE LET filled == current_chunk \o Head(words) \o <<" ">>
         IN  IF TextLength(filled) >= ChunkLength
             THEN <<Strip(filled)>> \o Packed(Tail(words), <<>>)
             ELSE Packed(Tail(words), filled)

\* the chunks generate_sse_response cuts the text into
Chunks(text) ==
    LET chunks == Sentences(Split(text, <<>>), <<>>)
    IN  IF Len(chunks) <= 1 THEN Packed(Words(text, <<>>), <<>>) ELSE chunks

\* a frame without the key "usage" (usage holds the block, if any)
NoUsage == <<>>

\* one "data: {...}" frame of a stream
Frame(role, content, tool_calls, finish_reason, usage) ==
    [data |-> "chunk", role |-> role, content |-> content,
     tool_calls |-> tool_calls, finish_reason |-> finish_reason, usage |-> usage]

\* "data: [DONE]"
DoneMarker ==
    [data |-> "[DONE]", role |-> None, content |-> NoText,
     tool_calls |-> <<>>, finish_reason |-> None, usage |-> NoUsage]

\* finish_chunk["usage"]
ZeroUsage == [prompt_tokens |-> 0, completion_tokens |-> 0, total_tokens |-> 0]

finish_chunk_WithRole(finish_reason, include_usage) ==
    Frame("assistant", NoText, <<>>, finish_reason,
          IF include_usage THEN <<ZeroUsage>> ELSE NoUsage)

\* finish_chunk: the delta is {}
finish_chunk(finish_reason, include_usage) ==
    Frame(None, NoText, <<>>, finish_reason,
          IF include_usage THEN <<ZeroUsage>> ELSE NoUsage)

\* request.stream_options: absent, {} or with the key include_usage
StreamOptions == {"None", "{}", "include_usage: false", "include_usage: true"}

IncludeUsage_Always(stream_options) == TRUE

\* (getattr(request, "stream_options", {}) or {}).get("include_usage", False)
IncludeUsage(stream_options) == stream_options = "include_usage: true"

Framers == {"generate_sse_response", "generate_sse_tool_response", "_stream_gemini_sse"}

\* the texts resegmented
SseTexts == UNION { [1..k -> {"w", " ", "."}] : k \in 0..MaxText }

\* the non-empty call lists parse_tool_calls returns
ToolCallLists ==
    LET calls == {ToolCall("given", "string"), ToolCall("synthesized", "serialized")}
    IN  UNION { [1..k -> calls] : k \in 1..MaxCalls }

\* what generate_stream yields: outputs with and without a text_delta
Upstreams == UNION { [1..k -> {<<>>, <<"w">>, <<".">>}] : k \in 0..MaxOutputs }

Stream(framer, text, tool_calls, upstream, stream_options) ==
    [op |-> "stream", framer |-> framer, text |-> text, tool_calls |-> tool_calls,
     upstream |-> upstream, stream_options |-> stream_options,
     include_usage |-> IncludeUsage(stream_options), pc |-> "start",
     todo |-> <<>>, first_chunk |-> TRUE, frames |-> <<>>, error |-> None]

Streams ==
    { Stream("generate_sse_response", text, <<>>, <<>>, u) :
          text \in SseTexts, u \in StreamOptions }
    \cup { Stream("generate_sse_tool_response", <<>>, calls, <<>>, u) :
               calls \in ToolCallLists, u \in StreamOptions }
    \cup { Stream("_stream_gemini_sse", <<>>, <<>>, up, u) :
               up \in Upstreams, u \in StreamOptions }

InitFrames ==
    /\ profiles = NoProfiles
    /\ cookies = [p \in Profiles |-> NoCookies]
    /\ now = 0
    /\ last \in Streams
    /\ cm_lock = None
    /\ cm_task = [t \in CmTasks |-> CmIdle]
    /\ InitWrapperVars
    /\ InitSessionManager

InStream(pc) == last.op = "stream" /\ last.pc = pc

\* the generator runs up to its loop
FStart ==
    /\ InStream("start")
    /\ last' = [last EXCEPT
                   !.pc = "chunks",
                   !.todo = CASE last.framer = "generate_sse_response" -> Chunks(last.text)
                              [] last.framer = "generate_sse_tool_response" ->
                                     last.tool_calls
                              [] last.framer = "_stream_gemini_sse" -> last.upstream]
    /\ UNCHANGED <<storeVars, cmVars, wVars, sm>>

NextFrame_AlwaysRole ==
    CASE last.framer = "generate_sse_tool_response" ->
             Frame("assistant", NoText, <<Head(last.todo)>>, None, NoUsage)
      [] OTHER -> Frame("assistant", Head(last.todo), <<>>, None, NoUsage)

\* the frame of the next chunk, call or delta
NextFrame ==
    CASE last.framer = "generate_sse_response" ->
             Frame(IF last.first_chunk THEN "assistant" ELSE None,
                   Head(last.todo), <<>>, None, NoUsage)
      [] last.framer = "generate_sse_tool_response" ->
             Frame("assistant", NoText, <<Head(last.todo)>>, None, NoUsage)
      [] last.framer = "_stream_gemini_sse" ->
             Frame(IF last.first_chunk THEN "assistant" ELSE None,
                   Head(last.todo), <<>>, None, NoUsage)

\* yield f"data: {json.dumps(chunk_data)}\n\n"
FYield ==
    /\ InStream("chunks")
    /\ last.todo # <<>>
    /\ last.framer = "_stream_gemini_sse" => Head(last.todo) # <<>>
    /\ last' = [last EXCEPT !.todo = Tail(last.todo), !.first_chunk = FALSE,
                            !.frames = Append(last.frames, NextFrame)]
    /\ UNCHANGED <<storeVars, cmVars, wVars, sm>>

\* if not delta_text: continue
FSkip ==
    /\ InStream("chunks")
    /\ last.framer = "_stream_gemini_sse"
    /\ last.todo # <<>>
    /\ Head(last.todo) = <<>>
    /\ last' = [last EXCEPT !.todo = Tail(last.todo)]
    /\ UNCHANGED <<storeVars, cmVars, wVars, sm>>

\* (mutant) a handler that logs the failure and goes on reading
FRaise_KeepsReading(kind) ==
    /\ InStream("chunks")
    /\ last.framer = "_stream_gemini_sse"
    /\ last.error = None
    /\ last' = IF Handles(kind)
               THEN [last EXCEPT !.error = kind]
               ELSE [last EXCEPT !.pc = "cancelled", !.error = kind]
    /\ UNCHANGED <<storeVars, cmVars, wVars, sm>>

\* generate_stream raises: `except Exception` goes on to the finish chunk,
\* a cancellation leaves the generator
FRaise(kind) ==
    /\ InStream("chunks")
    /\ last.framer = "_stream_gemini_sse"
    /\ last.error = None
    /\ last' = IF Handles(kind)
               THEN [last EXCEPT !.todo = <<>>, !.error = kind]
               ELSE [last EXCEPT !.pc = "cancelled", !.error = kind]
    /\ UNCHANGED <<storeVars, cmVars, wVars, sm>>

\* yield f"data: {json.dumps(finish_chunk)}\n\n"
FFinish ==
    /\ InStream("chunks")
    /\ last.todo = <<>>
    /\ last' = [last EXCEPT
                   !.pc = "finished",
                   !.frames = Append(last.frames,
                       finish_chunk(IF last.framer = "generate_sse_tool_response"
                                    THEN "tool_calls" ELSE "stop",
                                    last.include_usage))]
    /\ UNCHANGED <<storeVars, cmVars, wVars, sm>>

\* yield "data: [DONE]\n\n"
FDone ==
    /\ InStream("finished")
    /\ last' = [last EXCEPT !.pc = "returned",
                            !.frames = Append(last.frames, DoneMarker)]
    /\ UNCHANGED <<storeVars, cmVars, wVars, sm>>

NextFrames ==
    \/ FStart
    \/ FYield
    \/ FSkip
    \/ \E kind \in {"RuntimeError", "CancelledError"} : FRaise(kind)
    \/ FFinish
    \/ FDone

SpecFrames == InitFrames /\ [][NextFrames]_vars

(***************************************************************************)
(* The prompt builder: collapse_messages and inject_tools_into_prompt of   *)
(* message_transforms.py with tool_parsing.py, and of openai_transforms.py. *)
(* A string is the sequence of its pieces: the characters of a name, the   *)
(* body of a message, a fixed piece of a format string.                    *)
(***************************************************************************)
\* a string that is not ""
NonEmpty(text) == text # <<>>

\* sep.join(lines)
RECURSIVE Join(_, _)
Join(lines, sep) ==
    IF lines = <<>> THEN <<>>
    ELSE IF Len(lines) = 1 THEN Head(lines)
    ELSE Head(lines) \o sep \o Join(Tail(lines), sep)

\* the content of a message: None, a string, or a list of content blocks
NoContent == [is |-> "None", text |-> <<>>, blocks |-> <<>>]

Str(text) == [is |-> "str", text |-> text, blocks |-> <<>>]

Blocks(blocks) == [is |-> "list", text |-> <<>>, blocks |-> blocks]

\* a ChatCompletionMessageContent of a content list
TextBlock(text) == [type |-> "text", text |-> text]

ImageBlock == [type |-> "image_url", text |-> NoText]

\* a ChatCompletionMessage
Message(role, content, tool_calls, tool_call_id, name) ==
    [role |-> role, content |-> content, tool_calls |-> tool_calls,
     tool_call_id |-> tool_call_id, name |-> name]

\* a ToolCall of an assistant message: id, function.name, function.arguments
Call(id, name, arguments) == [id |-> id, name |-> name, arguments |-> arguments]

\* render_message_content(message)
render_message_content(message) ==
    LET HasText(part) == part.type = "text" /\ part.text # NoText
        texts == SelectSeq(message.content.blocks, HasText)
    IN  CASE message.content.is = "None" -> <<>>
          [] message.content.is = "str" -> message.content.text
          [] message.content.is = "list" ->
                 Join([i \in 1..Len(texts) |-> texts[i].text], <<"\n">>)

\* format_tool_result_for_prompt(tool_call_id, name, content)
format_tool_result_for_prompt(tool_call_id, name, content) ==
    <<"[Tool Result for ">> \o name \o <<" (id: ">> \o tool_call_id
        \o <<")]", "\n">> \o content

\* x or "unknown"
OrUnknown(x) == IF x = NoText \/ x = <<>> THEN <<"unknown">> ELSE x

ToolCallsEcho_WithArguments(message) ==
    <<"ASSISTANT", ": ", "[Tool calls: ">>
        \o Join([i \in 1..Len(message.tool_calls) |->
                     <<"Called ">> \o message.tool_calls[i].name \o <<"(id=">>
                         \o message.tool_calls[i].id \o <<")">>
                         \o message.tool_calls[i].arguments],
                <<", ">>)
        \o <<"]">>

\* the echo of an assistant message that carries tool calls
ToolCallsEcho(message) ==
    <<"ASSISTANT", ": ", "[Tool calls: ">>
        \o Join([i \in 1..Len(message.tool_calls) |->
                     <<"Called ">> \o message.tool_calls[i].name \o <<"(id=">>
                         \o message.tool_calls[i].id \o <<")">>],
                <<", ">>)
        \o <<"]">>

\* the dialogue line of one message, none for a system message
DialogueLine(message) ==
    CASE message.role = "tool" ->
             <<format_tool_result_for_prompt(OrUnknown(message.tool_call_id),
                                             OrUnknown(message.name),
                                             render_message_content(message))>>
      [] message.role = "assistant" /\ message.tool_calls # <<>> ->
             <<ToolCallsEcho(message)>>
      [] message.role = "system" -> <<>>
      [] OTHER ->
             <<(IF message.role = "user" THEN <<"USER">> ELSE <<"ASSISTANT">>)
                   \o <<": ">> \o render_message_content(message)>>

\* the system body of one message, none unless it reaches the system branch
SystemPrompt(message) ==
    IF message.role = "system" THEN <<render_message_content(message)>> ELSE <<>>

\* the loop of collapse_messages over request.messages
RECURSIVE dialogue_lines(_)
dialogue_lines(messages) ==
    IF messages = <<>> THEN <<>>
    ELSE DialogueLine(Head(messages)) \o dialogue_lines(Tail(messages))

RECURSIVE system_prompts(_)
system_prompts(messages) ==
    IF messages = <<>> THEN <<>>
    ELSE SystemPrompt(Head(messages)) \o system_prompts(Tail(messages))

\* the two copies of the prompt builder
Builders == {"message_transforms", "openai_transforms"}

base_prompt_Interleaved(builder, messages) ==
    Join(dialogue_lines(messages) \o system_prompts(messages), <<"\n">>)

\* base_prompt
base_prompt(builder, messages) ==
    LET system == Join(system_prompts(messages), <<"\n">>)
        dialogue == Join(dialogue_lines(messages), <<"\n">>)
    IN  IF builder = "message_transforms"
        THEN IF system_prompts(messages) # <<>>
             THEN system \o <<"\n\n">> \o dialogue
             ELSE dialogue
        ELSE Join(SelectSeq(<<system, dialogue>>, NonEmpty), <<"\n\n">>)

\* the characters json.dumps / orjson.dumps write for one character of a
\* string: a quote is escaped, json.dumps escapes what is not ASCII
\* ("e-acute" is the letter e with an acute accent)
Escaped(builder, char) ==
    CASE char = "\"" -> <<"\\", "\"">>
      [] char = "e-acute" /\ builder = "openai_transforms" -> <<"\\", "u", "0", "0", "e", "9">>
      [] OTHER -> <<char>>

Escaped_Never(builder, char) == <<char>>

\* the JSON string of a name
RECURSIVE dumps(_, _)
dumps(builder, name) ==
    IF name = <<>> THEN <<>>
    ELSE Escaped(builder, Head(name)) \o dumps(builder, Tail(name))

\* format_tools_for_prompt(tools)
format_tools_for_prompt(builder, tools) ==
    <<"[">>
        \o Join([i \in 1..Len(tools) |->
                     <<"{type: function, function: {name: ", "\"">>
                         \o dumps(builder, tools[i]) \o <<"\"", ", description, parameters}}">>],
                <<", ">>)
        \o <<"]">>

inject_tools_into_prompt_Appended(builder, prompt, tools) ==
    IF tools = <<>> THEN prompt
    ELSE prompt \o <<"\n\n", "TOOL_SYSTEM_PROMPT: ">>
             \o format_tools_for_prompt(builder, tools) \o <<"\n">>

\* inject_tools_into_prompt(prompt, tools)
inject_tools_into_prompt(builder, prompt, tools) ==
    IF tools = <<>> THEN prompt
    ELSE <<"TOOL_SYSTEM_PROMPT: ">> \o format_tools_for_prompt(builder, tools)
             \o <<"\n">> \o <<"\n\n">> \o prompt

\* collapse_messages(request)
collapse_messages(builder, messages, tools) ==
    inject_tools_into_prompt(builder, base_prompt(builder, messages), tools)

\* the messages of the requests
Messages ==
    { Message("system", Str(<<"S">>), <<>>, NoText, NoText),
      Message("system", Str(<<"T">>), <<>>, NoText, NoText),
      Message("system", NoContent, <<>>, NoText, NoText),
      Message("user", Str(<<"U">>), <<>>, NoText, NoText),
      Message("user", Blocks(<<TextBlock(<<"V">>), ImageBlock, TextBlock(<<"W">>)>>),
              <<>>, NoText, NoText),
      Message("assistant", Str(<<"A">>), <<>>, NoText, NoText),
      Message("assistant", Str(<<"X">>),
              <<Call(<<"c1">>, <<"f">>, <<"args1">>)>>, NoText, NoText),
      Message("assistant", NoContent,
              <<Call(<<"c1">>, <<"f">>, <<"args1">>),
                Call(<<"c2">>, <<"g">>, <<"args2">>)>>, NoText, NoText),
      Message("tool", Str(<<"R">>), <<>>, <<"c1">>, <<"f">>),
      Message("tool", Str(<<"Q">>), <<>>, <<"c2">>, NoText) }

\* the names of the tool definitions: plain, with a quote, not ASCII
ToolNames == { <<"f">>, <<"g", "\"", "h">>, <<"e-acute">> }

\* request.tools: None, or a list of definitions
ToolLists == UNION { [1..k -> ToolNames] : k \in 0..MaxTools }

Requests ==
    { [op |-> "request", messages |-> messages, tools |-> tools] :
          messages \in UNION { [1..k -> Messages] : k \in 1..MaxMessages },
          tools \in ToolLists }

InitCollapse ==
    /\ profiles = NoProfiles
    /\ cookies = [p \in Profiles |-> NoCookies]
    /\ now = 0
    /\ last \in Requests
    /\ cm_lock = None
    /\ cm_task = [t \in CmTasks |-> CmIdle]
    /\ InitWrapperVars
    /\ InitSessionManager

\* prompt = collapse_messages(request)
CollapseMessages(builder) ==
    /\ last.op = "request"
    /\ last' = [op |-> "collapse_messages", builder |-> builder,
                messages |-> last.messages, tools |-> last.tools,
                base_prompt |-> base_prompt(builder, last.messages),
                prompt |-> collapse_messages(builder, last.messages, last.tools)]
    /\ UNCHANGED <<storeVars, cmVars, wVars, sm>>

NextCollapse == \E builder \in Builders : CollapseMessages(builder)

SpecCollapse == InitCollapse /\ [][NextCollapse]_vars

(***************************************************************************)
(* The calls of SessionManager.                                            *)
(***************************************************************************)
\* the entries of a TTLCache that have not expired at time t
Live(cache, t) == { e \in cache : t < e.expires }

\* the ids self._user_sessions holds for user_id
IdsOf(user_id) == { p[2] : p \in { q \in sm.user_sessions : q[1] = user_id } }

\* the entity ids given to attribution()
Entities == Users \cup {""}

SmUnchanged == UNCHANGED <<profiles, cookies, cmVars, wVars>>

\* attribution(entity_id)
SmAttribution(entity_id) ==
    /\ sm' = [sm EXCEPT !.current_user_id = entity_id]
    /\ last' = [op |-> "attribution", user_id |-> entity_id]
    /\ UNCHANGED now
    /\ SmUnchanged

\* self._sessions[session_id] = session: the expired entries go first, then
\* an entry is evicted if the cache is full; the caches it may leave
Inserted(cache, session) ==
    LET kept == Live(cache, now)
    IN  IF Cardinality(kept) >= CacheSize
        THEN { (kept \ {victim}) \cup {session} : victim \in kept }
        ELSE { kept \cup {session} }

\* new_session()
SmNewSession ==
    /\ UNCHANGED now
    /\ SmUnchanged
    /\ IF sm.current_user_id \in {None, ""}
       THEN /\ last' = [op |-> "new_session", raised |-> "ValueError", session_id |-> 0]
            /\ UNCHANGED sm
       ELSE /\ sm.created < MaxCreated
            /\ LET session_id == sm.created + 1
                   session == [session_id |-> session_id,
                               user_id |-> sm.current_user_id,
                               expires |-> now + Ttl]
               IN  \E cache \in Inserted(sm.sessions, session) :
                     /\ sm' = [sm EXCEPT
                                 !.sessions = cache,
                                 !.user_sessions = @ \cup {<<sm.current_user_id, session_id>>},
                                 !.current_session_id = session_id,
                                 !.created = session_id]
                     /\ last' = [op |-> "new_session", raised |-> None,
                                 session_id |-> session_id]

ActiveSessions_Indexed(user_id) ==
    { e \in sm.sessions : e.session_id \in IdsOf(user_id) }

\* active_sessions: the sessions self._sessions.get(sid) finds
ActiveSessions(user_id) ==
    { e \in Live(sm.sessions, now) : e.session_id \in IdsOf(user_id) }

\* get_user_sessions(user_id), with the lazy cleanup of the index
SmGetUserSessions(user_id) ==
    LET valid_ids == { e.session_id : e \in ActiveSessions(user_id) }
    IN  /\ sm' = [sm EXCEPT !.user_sessions =
                      { p \in @ : p[1] # user_id }
                          \cup { <<user_id, sid>> : sid \in valid_ids }]
        /\ last' = [op |-> "get_user_sessions", user_id |-> user_id,
                    result |-> ActiveSessions(user_id),
                    stale |-> IdsOf(user_id) \ valid_ids]
        /\ UNCHANGED now
        /\ SmUnchanged

\* clear_user_sessions(user_id)
SmClearUserSessions(user_id) ==
    LET removed == { e \in Live(sm.sessions, now) : e.session_id \in IdsOf(user_id) }
    IN  /\ sm' = [sm EXCEPT !.sessions = @ \ removed,
                            !.user_sessions = { p \in @ : p[1] # user_id }]
        /\ last' = [op |-> "clear_user_sessions", user_id |-> user_id,
                    result |-> Cardinality(removed)]
        /\ UNCHANGED now
        /\ SmUnchanged

\* get_session(session_id): self._sessions.get(session_id), None for an id
\* that was never stored, was deleted or evicted, or has expired
get_session(session_id) ==
    IF \E e \in Live(sm.sessions, now) : e.session_id = session_id
    THEN CHOOSE e \in Live(sm.sessions, now) : e.session_id = session_id
    ELSE NoneObj

\* set_session(session_id): touch() changes last_accessed only
SmSetSession(session_id) ==
    /\ sm' = [sm EXCEPT !.current_session_id = session_id]
    /\ last' = [op |-> "set_session", session_id |-> session_id]
    /\ UNCHANGED now
    /\ SmUnchanged

\* clear_all()
SmClearAll ==
    /\ sm' = [sm EXCEPT !.sessions = {}, !.user_sessions = {},
                        !.current_user_id = None, !.current_session_id = 0]
    /\ last' = [op |-> "clear_all"]
    /\ UNCHANGED now
    /\ SmUnchanged

\* time.sleep
SmTick ==
    /\ now < MaxTime
    /\ now' = now + 1
    /\ last' = [op |-> "sleep"]
    /\ UNCHANGED sm
    /\ SmUnchanged

NextSessionManager ==
    \/ \E entity_id \in Entities : SmAttribution(entity_id)
    \/ SmNewSession
    \/ \E user_id \in Users : SmGetUserSessions(user_id)
    \/ \E user_id \in Users : SmClearUserSessions(user_id)
    \/ \E session_id \in 1..MaxCreated : SmSetSession(session_id)
    \/ SmClearAll
    \/ SmTick

SpecSessionManager == InitStore /\ [][NextSessionManager]_vars

(***************************************************************************)
(* The non-streaming response of the two chat-completions handlers, from   *)
(* the upstream text to the message of the one choice.                     *)
(***************************************************************************)
ReplyTexts ==
    { Flatten(ps) : ps \in UNION { [1..k -> Pieces] : k \in 0..MaxReplyPieces } }

\* ChatCompletionRequest.tools: None, an empty list, a list of definitions
ToolsGiven == {"None", "[]", "[tool]"}

\* ChatCompletionRequest.tool_choice
ToolChoices == {"None", "none", "auto", "required", "dict"}

InitReply ==
    /\ profiles = NoProfiles
    /\ cookies = [p \in Profiles |-> NoCookies]
    /\ now = 0
    /\ last \in { [op |-> "reply", text |-> text] : text \in ReplyTexts }
    /\ cm_lock = None
    /\ cm_task = [t \in CmTasks |-> CmIdle]
    /\ InitWrapperVars
    /\ InitSessionManager

\* (mutant) a handler that looks for tool calls in every reply
ParsesTools_Always(tools, tool_choice) == TRUE

\* if request.tools and request.tool_choice != "none":
ParsesTools(tools, tool_choice) == tools = "[tool]" /\ tool_choice # "none"

\* tool_calls, text = parse_tool_calls(text) under that condition
ParsedReply(text, tools, tool_choice) ==
    IF ParsesTools(tools, tool_choice)
    THEN parse_tool_calls("openai_transforms", text, FALSE)
    ELSE Parsed(None, <<>>, text)

Completion(content, tool_calls, finish_reason) ==
    [content |-> content, tool_calls |-> tool_calls,
     finish_reason |-> finish_reason]

\* _build_tool_call_response(tool_calls, remaining_text, ...)
build_tool_call_response(tool_calls, remaining_text) ==
    Completion(IF remaining_text # <<>> THEN Str(remaining_text) ELSE NoContent,
               tool_calls, "tool_calls")

\* to_chat_completion_response(output, request, resolved_model), by what its
\* own parse_tool_calls returned
to_chat_completion_response(parsed) ==
    IF parsed.tool_calls # <<>>
    THEN Completion(IF parsed.remaining_text # <<>>
                    THEN Str(parsed.remaining_text) ELSE NoContent,
                    parsed.tool_calls, "tool_calls")
    ELSE Completion(Blocks(<<TextBlock(parsed.remaining_text)>>), <<>>, "stop")

\* what the handler answers once its own parse_tool_calls has returned
\* parsed or raised: endpoints builds the tool-call response itself, and
\* otherwise both handlers call to_chat_completion_response, which parses
\* the same text under the same condition and so gets parsed once more
Answer(h, tools, tool_choice, text, parsed) ==
    [op |-> "chat_completion", handler |-> h, tools |-> tools,
     tool_choice |-> tool_choice, text |-> text, raised |-> parsed.raised,
     message |-> IF parsed.raised # None THEN Completion(NoContent, <<>>, None)
                 ELSE IF h = "endpoints" /\ parsed.tool_calls # <<>>
                 THEN build_tool_call_response(parsed.tool_calls,
                                               parsed.remaining_text)
                 ELSE to_chat_completion_response(parsed)]

\* the handler from `text = raw_response.text or ""` to its return
ChatCompletion(h, tools, tool_choice) ==
    /\ last.op = "reply"
    /\ last' = Answer(h, tools, tool_choice, last.text,
                      ParsedReply(last.text, tools, tool_choice))
    /\ UNCHANGED <<storeVars, cmVars, wVars, sm>>

NextReply ==
    \E h \in Handlers, tools \in ToolsGiven, tool_choice \in ToolChoices :
        ChatCompletion(h, tools, tool_choice)

SpecReply == InitReply /\ [][NextReply]_vars

(***************************************************************************)
(* The sentence loop of generate_sse_response on lists of parts.           *)
(***************************************************************************)
\* "", "   ", "Hello", "Hello.", "End. ", a piece of ChunkLength letters,
\* "Part "
SentenceParts ==
    { <<>>, <<" ">>, <<"w">>, <<"w", ".">>, <<"w", ".", " ">>, <<"w", "w">>,
      <<"w", " ">> }

PartLists == UNION { [1..k -> SentenceParts] : k \in 0..MaxParts }

InitChunks ==
    /\ profiles = NoProfiles
    /\ cookies = [p \in Profiles |-> NoCookies]
    /\ now = 0
    /\ last \in { [op |-> "parts", parts |-> parts] : parts \in PartLists }
    /\ cm_lock = None
    /\ cm_task = [t \in CmTasks |-> CmIdle]
    /\ InitWrapperVars
    /\ InitSessionManager

\* for part in sentences: ...; if current_chunk.strip(): chunks.append(...)
ChunkSentenceParts ==
    /\ last.op = "parts"
    /\ last' = [op |-> "chunk_sentence_parts", parts |-> last.parts,
                chunks |-> Sentences(last.parts, <<>>)]
    /\ UNCHANGED <<storeVars, cmVars, wVars, sm>>

NextChunks == ChunkSentenceParts

SpecChunks == InitChunks /\ [][NextChunks]_vars

(***************************************************************************)
(* A call of a function wrapped by retry_with_backoff, one step per        *)
(* invocation of the function and one per sleep.  Delays are whole         *)
(* numbers; an exception is known by its class and by the attempt that     *)
(* raised it.                                                              *)
(***************************************************************************)
Delays == {1, 2}

Factors == {1, 2}

NoRaise == [class |-> None, attempt |-> -1]

\* wrapper(*args, **kwargs) up to the for statement
RWrapper(max_attempts, initial_delay, backoff_factor) ==
    /\ last.op = "retry" => last.pc \in {"returned", "raised"}
    /\ last' = [op |-> "retry", max_attempts |-> max_attempts,
                initial_delay |-> initial_delay,
                backoff_factor |-> backoff_factor,
                pc |-> "for", attempt |-> 0, delay |-> initial_delay,
                last_exception |-> NoRaise, raised |-> NoRaise,
                events |-> <<>>, outcomes |-> <<>>, sleeps |-> <<>>]
    /\ UNCHANGED <<storeVars, cmVars, wVars, sm>>

InRetry(pc) == last.op = "retry" /\ last.pc = pc

\* (mutant) a sleep after the last attempt too
ShouldSleep_Always(attempt, max_attempts) == TRUE

\* if attempt < max_attempts - 1:
ShouldSleep(attempt, max_attempts) == attempt < max_attempts - 1

\* for attempt in range(max_attempts): the next attempt, or the statements
\* after the loop
RFor ==
    /\ InRetry("for")
    /\ last' =
         IF last.attempt < last.max_attempts THEN [last EXCEPT !.pc = "call"]
         ELSE IF last.last_exception # NoRaise
         THEN [last EXCEPT !.pc = "raised", !.raised = last.last_exception]
         ELSE [last EXCEPT !.pc = "raised",
                           !.raised = [class |-> "RuntimeError", attempt |-> -1]]
    /\ UNCHANGED <<storeVars, cmVars, wVars, sm>>

\* return await func(*args, **kwargs), and `except exceptions as e`
RCall(outcome) ==
    /\ InRetry("call")
    /\ LET called == [last EXCEPT !.events = Append(@, "call"),
                                  !.outcomes = Append(@, outcome)]
           e == [class |-> outcome, attempt |-> last.attempt]
       IN  last' =
             CASE outcome = "ok" -> [called EXCEPT !.pc = "returned"]
               [] outcome = "not in exceptions" ->
                    [called EXCEPT !.pc = "raised", !.raised = e]
               [] outcome = "in exceptions" ->
                    IF ShouldSleep(last.attempt, last.max_attempts)
                    THEN [called EXCEPT !.pc = "sleep", !.last_exception = e]
                    ELSE [called EXCEPT !.pc = "for", !.last_exception = e,
                                        !.attempt = @ + 1]
    /\ UNCHANGED <<storeVars, cmVars, wVars, sm>>

\* await asyncio.sleep(delay); delay *= backoff_factor; continue
RSleep ==
    /\ InRetry("sleep")
    /\ last' = [last EXCEPT !.events = Append(@, "sleep"),
                            !.sleeps = Append(@, last.delay),
                            !.delay = @ * last.backoff_factor,
                            !.attempt = @ + 1, !.pc = "for"]
    /\ UNCHANGED <<storeVars, cmVars, wVars, sm>>

NextRetry ==
    \/ \E max_attempts \in 0..MaxAttempts, initial_delay \in Delays,
          backoff_factor \in Factors :
          RWrapper(max_attempts, initial_delay, backoff_factor)
    \/ RFor
    \/ \E outcome \in {"ok", "in exceptions", "not in exceptions"} : RCall(outcome)
    \/ RSleep

SpecRetry == InitStore /\ [][NextRetry]_vars

(***************************************************************************)
(* CookieData.is_expired, asked of every cookie of a list at the current   *)
(* time.                                                                   *)
(***************************************************************************)
\* if self.expires is None: return False
\* return time.time() > self.expires
is_expired(cookie, t) ==
    IF cookie.expires = NoExpiry THEN FALSE ELSE t > cookie.expires

CdIsExpired(given) ==
    /\ last' = [op |-> "is_expired", given |-> given, at |-> now,
                result |-> [i \in DOMAIN given |-> is_expired(given[i], now)]]
    /\ UNCHANGED <<now, sm>>
    /\ SmUnchanged

NextCookieData ==
    \/ \E given \in CookieLists : CdIsExpired(given)
    \/ SmTick

SpecCookieData == InitStore /\ [][NextCookieData]_vars

(***************************************************************************)
(* Properties of the wrapper (SpecWrapper).                                *)
(***************************************************************************)
GenOrChat(t) == w_task[t].op \in {"generate", "chat"}

InitOps == {"init_with_profile", "switch_profile", "init_auto"}

Failed(r) == r \in {"e1", "e2", "AttributeError"}

WrapperUnchanged == UNCHANGED <<client, profile_name, chat_sessions, conns>>

\* C1 as stated: a generate or chat call whose first upstream attempt fails
\* while a named profile is active attempts exactly one refresh, and when
\* that refresh succeeds it makes exactly one reinitialization and exactly
\* one retry; refreshes <= 1, reinitializations <= 1, upstream attempts <= 2.
C1_RefreshReinitRetryOnce ==
    \A t \in WTasks :
        LET me == w_task[t]
        IN  (me.pc = "done" /\ GenOrChat(t) /\ me.first_failed /\ me.had_profile) =>
                /\ me.refreshes = 1
                /\ me.refresh_ok = "True" => (me.reinits = 1 /\ me.retries = 1)
                /\ me.reinits <= 1
                /\ me.attempts <= 2

\* C1 amended: a generate or chat call attempts a refresh exactly when its
\* first upstream attempt fails while a named profile is active, and then
\* exactly once; it reinitializes exactly when the refresh succeeded, once;
\* it retries exactly when the reinitialization succeeded, once; a retry
\* that fails ends the call.  At every moment of a call refreshes <= 1,
\* reinitializations <= 1, retries <= 1 and upstream attempts <= 2.
C1_RetryOnlyAfterReinit ==
    \A t \in WTasks :
        LET me == w_task[t]
        IN  /\ me.refreshes <= 1
            /\ me.reinits <= 1
            /\ me.retries <= 1
            /\ me.attempts <= 2
            /\ (me.pc = "done" /\ GenOrChat(t)) =>
                  /\ me.refreshes =
                        IF me.first_failed /\ me.had_profile THEN 1 ELSE 0
                  /\ me.reinits = IF me.refresh_ok = "True" THEN 1 ELSE 0
                  /\ me.retries = IF me.reinit_ok = "True" THEN 1 ELSE 0
                  /\ me.attempts <= 1 + me.retries
                  /\ me.result = "e2" =>
                        (me.attempts = 2 /\ me.retries = 1 /\ me.reinits = 1
                            /\ me.refreshes = 1)

\* C1 witness: a generate whose first attempt failed under a named profile,
\* whose refresh and reinitialization succeeded and whose retry failed too.
C1_Witness ==
    \E t \in WTasks :
        /\ w_task[t].pc = "done"
        /\ w_task[t].op = "generate"
        /\ w_task[t].first_failed
        /\ w_task[t].had_profile
        /\ w_task[t].refresh_ok = "True"
        /\ w_task[t].reinit_ok = "True"
        /\ w_task[t].attempts = 2
        /\ w_task[t].result = "e2"

\* C2: a generate or chat that fails with no named profile active raises the
\* error of its first upstream attempt, after no refresh and no
\* reinitialization, and leaves the connection, the active profile and the
\* session map as they are; one whose retried call fails too raises the
\* error of the first attempt.
C2_OriginalErrorReachesCaller ==
    [][\A t \in WTasks :
          LET me == w_task[t]
              to == w_task'[t]
          IN  (to.pc = "done" /\ Failed(to.result)) =>
                /\ (me.pc \in {"gen1", "chat1"} /\ profile_name = None) =>
                      /\ to.result = "e1"
                      /\ to.refreshes = 0
                      /\ to.reinits = 0
                      /\ WrapperUnchanged
                /\ me.pc \in {"gen2", "chat2"} => to.result = "e1"]_vars

Open == { i \in DOMAIN conns : conns[i].status = "open" }

\* C3: whatever the interleaving of init_with_profile, init_auto,
\* switch_profile and the reinitialization after a refresh, at no time are
\* two connections of the wrapper opened and not closed.
C3_AtMostOneOpenConnection == Cardinality(Open) <= 1

\* the task takes the step that creates a GeminiClient
Creates(t) ==
    /\ Len(conns') = Len(conns) + 1
    /\ w_task'[t].mine = Len(conns')

\* C4: a call of init_with_profile, switch_profile or init_auto (or the
\* reinitialization of a retry) creates its connection only when it found no
\* connection, or after the close it called on the connection it found has
\* returned; and switch_profile(name) starts, from every state, exactly
\* when init_with_profile(name) starts and with the same step.
C4_CloseReturnsBeforeCreate ==
    [][\A t \in WTasks :
          /\ Creates(t) =>
                \/ /\ client = NoClient
                   /\ w_task[t].pc \in {"idle", "init_cookies"}
                \/ /\ w_task[t].pc = "close_wait"
                   /\ w_task[t].closing # NoClient
                   /\ conns'[w_task[t].closing].status = "closed"
          /\ \A n \in Profiles :
                /\ (ENABLED switch_profile(t, n)) <=> (ENABLED WInitWithProfile(t, n))
                /\ switch_profile(t, n) =>
                      /\ [w_task'[t] EXCEPT !.op = "init_with_profile"]
                            = InitEntry(n, "init_with_profile")
                      /\ WrapperUnchanged]_vars

\* C4 witness: a switch_profile that found a connection, waited for its
\* close and then created the connection it is now initializing.
C4_Witness ==
    \E t \in WTasks :
        /\ w_task[t].op = "switch_profile"
        /\ w_task[t].pc = "init_wait"
        /\ w_task[t].closing # NoClient
        /\ conns[w_task[t].closing].status = "closed"
        /\ w_task[t].mine > w_task[t].closing
        /\ conns[w_task[t].mine].status = "initing"

\* the value of a required cookie of the profile is missing, expired or empty
Unusable(name) ==
    \/ name = None
    \/ \E n \in REQUIRED_COOKIES :
          \/ n \notin DOMAIN cookies[name]
          \/ cookies[name][n].expires # NoExpiry /\ cookies[name][n].expires < now
          \/ cookies[name][n].value = ""

\* C5: init_with_profile(name) for a profile whose required cookies are
\* missing, expired or empty returns False (to _try_refresh, whose caller
\* then raises the first error) in the step that reads them, and neither
\* that step nor the start of the call changes the connection, the active
\* profile name or the session map.
C5_UnusableCredentialsChangeNothing ==
    [][\A t \in WTasks :
          LET me == w_task[t]
              to == w_task'[t]
          IN  /\ (me.pc = "idle" /\ to.pc = "init_cookies") => WrapperUnchanged
              /\ (me.pc = "init_cookies" /\ to # me /\ Unusable(me.name)) =>
                    /\ to.pc = "done"
                    /\ to.result = IF me.op \in InitOps THEN "False" ELSE "e1"
                    /\ WrapperUnchanged]_vars

\* C5 witness: init_with_profile returned False for a stored profile whose
\* cookies are unusable while the connection that init_auto made stays open
\* and active.
C5_Witness ==
    \E t \in WTasks :
        /\ w_task[t].pc = "done"
        /\ w_task[t].op = "init_with_profile"
        /\ w_task[t].result = "False"
        /\ w_task[t].name \in DOMAIN profiles
        /\ Unusable(w_task[t].name)
        /\ client # NoClient
        /\ conns[client].status = "open"
        /\ profile_name = None

(***************************************************************************)
(* Properties of the streams and of the session map (SpecSession).         *)
(***************************************************************************)
StreamOps == {"generate_stream", "chat_stream"}

\* C11: a generate_stream or chat_stream call that fails while a named
\* profile is active attempts exactly one refresh (followed by one
\* reinitialization and one retry when they succeed), as generate and chat.
C11_StreamsRefreshAndRetry ==
    \A t \in WTasks :
        LET me == w_task[t]
        IN  (me.pc = "done" /\ me.op \in StreamOps /\ me.first_failed
                /\ me.had_profile) =>
                me.refreshes = 1

\* C12: when the timeout of the caller expires while generate is in flight,
\* in its first attempt, its refresh, its reinitialization or its retry, the
\* call ends with a timeout error in that very step, which starts no
\* refresh, no reinitialization and no retry and changes nothing of the
\* wrapper or the store, whether or not a named profile is active.
C12_TimeoutCancelsWithoutRetry ==
    [][\A t \in WTasks :
          WTimeout(t) =>
            /\ w_task'[t].pc = "done"
            /\ w_task'[t].result = "TimeoutError"
            /\ w_task'[t].attempts = w_task[t].attempts
            /\ w_task'[t].refreshes = w_task[t].refreshes
            /\ w_task'[t].reinits = w_task[t].reinits
            /\ w_task'[t].retries = w_task[t].retries
            /\ UNCHANGED <<storeVars, client, profile_name, chat_sessions,
                           conns, nsessions>>]_vars

\* C12 witness: a generate cancelled in its first attempt while a named
\* profile is active ended with the timeout error and without a refresh.
C12_Witness ==
    \E t \in WTasks :
        /\ w_task[t].pc = "done"
        /\ w_task[t].op = "generate"
        /\ w_task[t].result = "TimeoutError"
        /\ w_task[t].attempts = 1
        /\ w_task[t].refreshes = 0
        /\ profile_name # None
        /\ client # NoClient

\* the task takes a step
Moves(t) == w_task'[t] # w_task[t]

\* the step removes the entry of conversation k or puts another session
\* object under it
Replaced(k) ==
    k \notin DOMAIN chat_sessions' \/ chat_sessions'[k] # chat_sessions[k]

\* C14: chat and chat_stream take the session stored under the id when
\* there is one and otherwise create a new session on the current
\* connection; when the call ends successfully the session it used is the
\* one stored under the id; and between two calls an entry changes only by
\* such a store under its own id or in a step of init_with_profile,
\* init_auto, switch_profile or close, so that consecutive successful calls
\* with one id and none of those in between use the same session object.
C14_SessionReusedAndStored ==
    [][\A t \in WTasks :
          LET me == w_task[t]
              to == w_task'[t]
          IN  /\ (me.pc = "idle" /\ to.pc \in {"chat1", "cs1"}) =>
                    IF to.conv \in DOMAIN chat_sessions
                    THEN to.session = chat_sessions[to.conv]
                            /\ nsessions' = nsessions
                    ELSE to.session = [conn |-> client, serial |-> nsessions + 1]
                            /\ nsessions' = nsessions + 1
              /\ (me.pc \in {"chat1", "cs1", "chat2"} /\ to.pc = "done"
                    /\ to.result = "ok") =>
                    /\ me.conv \in DOMAIN chat_sessions'
                    /\ chat_sessions'[me.conv] = me.session
              /\ (Moves(t) /\ \E k \in DOMAIN chat_sessions : Replaced(k)) =>
                    \/ /\ me.pc \in {"chat1", "cs1", "chat2"}
                       /\ to.result = "ok"
                       /\ \A k \in DOMAIN chat_sessions \ {me.conv} : ~Replaced(k)
                    \/ me.pc \in {"idle", "init_cookies", "close_wait", "init_wait"}]_vars

\* C14 witness: a chat in flight on the session that an earlier call stored
\* under its conversation id.
C14_Witness ==
    \E t \in WTasks :
        /\ w_task[t].op = "chat"
        /\ w_task[t].pc = "chat1"
        /\ w_task[t].conv \in DOMAIN chat_sessions
        /\ w_task[t].session = chat_sessions[w_task[t].conv]

\* C15: a session stored under a conversation id stays stored under it, the
\* same object, through every generate, stream, chat and chat_stream call,
\* failing ones and their refresh included; an entry goes only in a call of
\* init_with_profile, init_auto, switch_profile or close made by the caller.
C15_SessionsNeverEvicted ==
    [][\A t \in WTasks :
          (Moves(t) /\ \E k \in DOMAIN chat_sessions : Replaced(k)) =>
              w_task[t].op \in InitOps \cup {"close"}
              \/ w_task'[t].op \in InitOps \cup {"close"}]_vars

(***************************************************************************)
(* Properties of the chat-completions handlers (SpecHandlers).             *)
(***************************************************************************)
\* C13: in both handlers a non-streaming chat-completions request that
\* fails is answered 400 when the initialization failed, 502 when the
\* upstream generation failed and 504 when the generation timed out.
C13_FailureKindsDistinct ==
    (InHandler("responded") /\ ~last.stream) =>
        /\ last.kind = "init" => last.status = 400
        /\ last.kind = "upstream" => last.status = 502
        /\ last.kind = "timeout" => last.status = 504

(***************************************************************************)
(* Properties of the tool-call extractor (SpecParse).                      *)
(***************************************************************************)
HasParsed == last.op = "parse_tool_calls"

\* C16: parse_tool_calls never raises, whatever "tool_calls" and its
\* elements decode to, and when it produces no call list it returns the
\* empty list with the original text.
C16_ExtractorNeverRaises ==
    HasParsed =>
        /\ last.result.raised = None
        /\ last.result.tool_calls = <<>> => last.result.remaining_text = last.text

\* the positions of the key in the text
KeyPositions(text) == { i \in 0..Len(text) : OccursAt(text, <<"K">>, i) }

\* the object with a well-formed call list that a decode at start_pos reads
DecodesCalls(text) ==
    LET dec == raw_decode(text, start_pos(text))
    IN  start_pos(text) >= 0 /\ dec.ok /\ dec.has_key /\ dec.val \in {"L", "M"}

\* C17: when the key occurs more than once the first decode starts at the
\* nearest "{" before the last occurrence of the key, and an object that
\* decodes there is recovered whatever prose follows it.
C17_DecodesAtLastOccurrence ==
    HasParsed =>
        /\ Cardinality(KeyPositions(last.text)) > 1 =>
               \A i \in KeyPositions(last.text) :
                   (\A j \in KeyPositions(last.text) : j <= i) =>
                       start_pos(last.text) = RFind(last.text, <<"{">>, i)
        /\ DecodesCalls(last.text) => last.result.tool_calls # <<>>

\* text without text[a:b]
Without(text, a, b) == Slice(text, 0, a) \o Slice(text, b, Len(text))

\* C18: when calls are returned, the remaining text is the original text
\* without the decoded object, taken at the position where it was decoded
\* (to some end when it was repaired), or without the whole fenced block
\* when the object lies in one; surrounding whitespace aside.
C18_ExactSpanRemoved ==
    (HasParsed /\ last.result.tool_calls # <<>>) =>
        LET f == find_tool_call_json(last.parser, last.text, last.recovers)
            span == code_block_match(last.text)
            inside == \/ f.from_block
                      \/ /\ span # NoSpan
                         /\ span[1] < f.found.at
                         /\ f.found.end < span[2]
        IN  IF inside
            THEN last.result.remaining_text
                     = Strip(Without(last.text, span[1], span[2]))
            ELSE IF f.found.repaired
                 THEN \E e \in (f.found.at + 1)..Len(last.text) :
                          last.result.remaining_text
                              = Strip(Without(last.text, f.found.at, e))
            ELSE last.result.remaining_text
                     = Strip(Without(last.text, f.found.at, f.found.end))

(***************************************************************************)
(* Properties of the stream framers (SpecFrames).                          *)
(***************************************************************************)
\* the contents of the content frames, one after another
RECURSIVE Contents(_)
Contents(frames) ==
    IF frames = <<>> THEN <<>>
    ELSE (IF Head(frames).content = NoText THEN <<>> ELSE Head(frames).content)
         \o Contents(Tail(frames))

\* C19: the contents of the frames generate_sse_response emits, put together
\* in the order emitted, are the original text.
C19_ResegmentationLossless ==
    (InStream("returned") /\ last.framer = "generate_sse_response") =>
        Contents(last.frames) = last.text

IsFinish(frame) ==
    /\ frame.data = "chunk"
    /\ frame.role = None
    /\ frame.content = NoText
    /\ frame.tool_calls = <<>>
    /\ frame.finish_reason \in {"stop", "tool_calls"}

\* C20: a framer that ran to its end has emitted, last, one finish frame with
\* an empty delta and finish_reason stop or tool_calls and then one [DONE]
\* marker; every frame before them has no finish_reason, and the
\* finish_reason is tool_calls exactly when tool-call frames were emitted.
C20_StreamsEndWithFinishAndDone ==
    InStream("returned") =>
        LET n == Len(last.frames)
        IN  /\ n >= 2
            /\ last.frames[n] = DoneMarker
            /\ IsFinish(last.frames[n - 1])
            /\ \A i \in 1..(n - 2) :
                   /\ last.frames[i].data = "chunk"
                   /\ last.frames[i].finish_reason = None
            /\ last.frames[n - 1].finish_reason = "tool_calls"
                   <=> \E i \in 1..(n - 2) : last.frames[i].tool_calls # <<>>

\* C22: in every stream a usage block is on the finish frame exactly when
\* the request's stream_options hold include_usage true, on no content,
\* tool-call or [DONE] frame, and its three token counts are 0.
C22_UsageOnlyOnFinishWhenOptedIn ==
    last.op = "stream" =>
        \A i \in 1..Len(last.frames) :
            LET frame == last.frames[i]
            IN  /\ frame.usage # NoUsage =>
                       /\ IsFinish(frame)
                       /\ frame.usage = <<ZeroUsage>>
                       /\ \A n \in {"prompt_tokens", "completion_tokens", "total_tokens"} :
                              frame.usage[1][n] = 0
                /\ IsFinish(frame) =>
                       (frame.usage # NoUsage
                            <=> last.stream_options = "include_usage: true")

\* a tool-call stream of a request that opted in, run to its end
C22_Witness ==
    /\ InStream("returned")
    /\ last.framer = "generate_sse_tool_response"
    /\ last.stream_options = "include_usage: true"
    /\ last.frames[Len(last.frames) - 1].usage = <<ZeroUsage>>

IsContent(frame) == frame.content # NoText

\* the contents of the content frames, one per frame
RECURSIVE Forwarded(_)
Forwarded(frames) ==
    IF frames = <<>> THEN <<>>
    ELSE (IF IsContent(Head(frames)) THEN <<Head(frames).content>> ELSE <<>>)
         \o Forwarded(Tail(frames))

\* C21: in pass-through mode the content frames carry the non-empty deltas
\* read so far, unmodified and in order (all of them when the stream ran to
\* its end without a failure), an empty delta gives no frame, and the role
\* marker is on the first content frame and on no other frame.
C21_PassThroughForwardsDeltas ==
    (last.op = "stream" /\ last.framer = "_stream_gemini_sse") =>
        LET deltas == SelectSeq(last.upstream, NonEmpty)
            sent == Forwarded(last.frames)
        IN  /\ Len(sent) <= Len(deltas)
            /\ sent = SubSeq(deltas, 1, Len(sent))
            /\ (InStream("returned") /\ last.error = None) => sent = deltas
            /\ \A i \in 1..Len(last.frames) :
                   last.frames[i].role = "assistant" <=> i = 1 /\ IsContent(last.frames[i])

\* a pass-through stream of an empty delta and two different deltas after
\* it, run to its end
C21_Witness ==
    /\ InStream("returned")
    /\ last.framer = "_stream_gemini_sse"
    /\ last.error = None
    /\ last.upstream = << <<>>, <<"w">>, <<".">> >>
    /\ Len(last.frames) = 4

\* a pass-through stream that failed upstream after a content frame and
\* ran to its end
C20_Witness ==
    /\ InStream("returned")
    /\ last.framer = "_stream_gemini_sse"
    /\ last.error # None
    /\ Len(last.frames) >= 3

(***************************************************************************)
(* Properties of the prompt builder (SpecCollapse).                        *)
(***************************************************************************)
HasCollapsed == last.op = "collapse_messages"

IsSystem(message) == message.role = "system"

IsDialogue(message) == message.role # "system"

\* the pieces that only a system body holds, the piece that tells each
\* dialogue message, and the pieces a dialogue line starts with
SystemBodies == {"S", "T"}

Marks == {"U", "V", "A", "R", "Q", "[Tool calls: "}

LineStarts == {"USER", "ASSISTANT", "[Tool Result for "}

MarkOf(message) ==
    CASE message.role = "tool" -> message.content.text[1]
      [] message.tool_calls # <<>> -> "[Tool calls: "
      [] message.content.is = "list" -> "V"
      [] OTHER -> message.content.text[1]

Among(text, pieces) == { i \in 1..Len(text) : text[i] \in pieces }

\* where the k-th piece of text that is in pieces stands
Nth(text, pieces, k) ==
    CHOOSE i \in Among(text, pieces) :
        Cardinality({ j \in Among(text, pieces) : j <= i }) = k

Contains(text, sub) == Find(text, sub, 0) >= 0

\* C23: the collapsed system text and dialogue starts with the bodies of the
\* system messages, joined in their order, each once and none after the
\* first dialogue line; the other messages follow in their order, a user or
\* assistant message as "ROLE: content" and a tool message as a labeled
\* block; [system S, user U] without tools collapses to a prompt ending
\* with U.
C23_SystemFirstDialogueInOrder ==
    HasCollapsed =>
        LET base == last.base_prompt
            sys == SelectSeq(last.messages, IsSystem)
            dia == SelectSeq(last.messages, IsDialogue)
            bodies == Join([i \in 1..Len(sys) |-> render_message_content(sys[i])],
                           <<"\n">>)
            InMarks(piece) == piece \in Marks
        IN  /\ SubSeq(base, 1, Len(bodies)) = bodies
            /\ \A b \in SystemBodies :
                   Cardinality(Among(base, {b}))
                       = Cardinality({ i \in 1..Len(sys) : sys[i].content.text = <<b>> })
            /\ \A i \in Among(base, SystemBodies), j \in Among(base, LineStarts) : i < j
            /\ SelectSeq(base, InMarks) = [i \in 1..Len(dia) |-> MarkOf(dia[i])]
            /\ \A i \in Among(base, {"U", "A"}) :
                   /\ i > 2
                   /\ base[i - 1] = ": "
                   /\ base[i - 2] = IF base[i] = "U" THEN "USER" ELSE "ASSISTANT"
            /\ \A i \in Among(base, {"R", "Q"}) :
                   /\ i > 6
                   /\ base[i - 6] = "[Tool Result for "
                   /\ <<base[i - 2], base[i - 1]>> = <<")]", "\n">>
            /\ (/\ last.tools = <<>>
                /\ Len(last.messages) = 2
                /\ last.messages[1] = Message("system", Str(<<"S">>), <<>>, NoText, NoText)
                /\ last.messages[2] = Message("user", Str(<<"U">>), <<>>, NoText, NoText))
                   => /\ last.prompt[Len(last.prompt)] = "U"
                      /\ last.prompt = <<"S", "\n\n", "USER", ": ", "U">>

\* a request whose system messages come after a user message
C23_Witness ==
    /\ HasCollapsed
    /\ Len(last.messages) = 3
    /\ last.messages[1].role = "user"
    /\ last.messages[2].content = Str(<<"S">>)
    /\ last.messages[3].content = Str(<<"T">>)
    /\ SubSeq(last.base_prompt, 1, 3) = <<"S", "\n", "T">>

\* the tool-instruction block of the prompt, up to the collapsed text
ToolBlock == Slice(last.prompt, 0, Len(last.prompt) - Len(last.base_prompt))

BlockAndBase ==
    /\ Contains(last.prompt, <<"TOOL_SYSTEM_PROMPT: ">>) <=> last.tools # <<>>
    /\ last.prompt = ToolBlock \o last.base_prompt
    /\ last.tools # <<>> => Head(last.prompt) = "TOOL_SYSTEM_PROMPT: "
    /\ last.tools = <<>> => last.prompt = last.base_prompt

\* C24: the tool-instruction block is in the prompt exactly when the
\* request has tool definitions; it is then a prefix of the prompt, before
\* the system text and the dialogue, and holds the name of every tool;
\* without it the prompt is the collapsed system text and dialogue.
C24_ToolBlockIffToolsWithNames ==
    HasCollapsed =>
        /\ BlockAndBase
        /\ \A i \in 1..Len(last.tools) : Contains(ToolBlock, last.tools[i])

\* the characters JSON leaves as they are (json.dumps: the ASCII ones)
Plain(builder, char) ==
    char # "\"" /\ (builder = "openai_transforms" => char # "e-acute")

\* C24 as amended: as above, the block holding the JSON string of every
\* tool's name, which is the name itself when all its characters are plain.
C24_ToolBlockHoldsEncodedNames ==
    HasCollapsed =>
        /\ BlockAndBase
        /\ \A i \in 1..Len(last.tools) :
               /\ Contains(ToolBlock, <<"\"">> \o dumps(last.builder, last.tools[i])
                                          \o <<"\"">>)
               /\ (\A k \in 1..Len(last.tools[i]) :
                       Plain(last.builder, last.tools[i][k]))
                      => Contains(ToolBlock, last.tools[i])

\* a request with a plain tool name and one that JSON escapes
C24_Witness ==
    /\ HasCollapsed
    /\ last.tools = << <<"f">>, <<"g", "\"", "h">> >>
    /\ Head(last.prompt) = "TOOL_SYSTEM_PROMPT: "
    /\ last.base_prompt # <<>>

HasCalls(message) == message.tool_calls # <<>>

\* "Called <fn>(id=<id>)" for each call, in call order, on one line
EchoLine(message) ==
    <<"ASSISTANT", ": ", "[Tool calls: ">>
        \o Join([i \in 1..Len(message.tool_calls) |->
                     <<"Called ">> \o message.tool_calls[i].name
                         \o <<"(id=">> \o message.tool_calls[i].id \o <<")">>],
                <<", ">>)
        \o <<"]">>

\* C25: an assistant message with tool calls becomes one line with a
\* "Called <fn>(id=<id>)" entry per call in call order, standing where the
\* message stood among the dialogue lines; the prompt holds neither the
\* arguments of its calls nor its content.
C25_ToolCallsEchoed ==
    HasCollapsed =>
        LET base == last.base_prompt
            dia == SelectSeq(last.messages, IsDialogue)
        IN  /\ Cardinality(Among(base, LineStarts)) = Len(dia)
            /\ \A k \in 1..Len(dia) :
                   HasCalls(dia[k]) =>
                       LET at == Nth(base, LineStarts, k)
                           line == EchoLine(dia[k])
                       IN  /\ OccursAt(base, line, at - 1)
                           /\ at - 1 + Len(line) < Len(base)
                                  => base[at + Len(line)] = "\n"
            /\ Among(last.prompt, {"args1", "args2", "X"}) = {}

\* an assistant message with two calls between two other dialogue
\* messages, and one with content
C25_Witness ==
    /\ HasCollapsed
    /\ Len(last.messages) = 3
    /\ last.messages[1].content = Str(<<"X">>)
    /\ Len(last.messages[2].tool_calls) = 2
    /\ last.messages[3].role = "tool"
    /\ Contains(last.prompt, <<"Called ", "g", "(id=", "c2", ")", "]", "\n">>)

(***************************************************************************)
(* Properties of the SessionManager (SpecSessionManager).                  *)
(***************************************************************************)
\* the sessions created for user_id that are in the cache
LiveOf(user_id) == { e \in Live(sm.sessions, now) : e.user_id = user_id }

LiveOfAfter(user_id) == { e \in Live(sm'.sessions, now') : e.user_id = user_id }

\* C26: a session is created for the attributed user; get_user_sessions(u)
\* returns the sessions created for u that are in the cache and no other;
\* clear_user_sessions(u) returns how many of them it removed, removes them
\* all and leaves the sessions of the other users as they are.
C26_UserSessionsExact ==
    [][/\ (last'.op = "new_session" /\ last'.raised = None) =>
              \E e \in Live(sm'.sessions, now') :
                  /\ e.session_id = last'.session_id
                  /\ e.user_id = sm.current_user_id
       /\ last'.op = "get_user_sessions" =>
              last'.result = LiveOf(last'.user_id)
       /\ last'.op = "clear_user_sessions" =>
              /\ last'.result = Cardinality(LiveOf(last'.user_id))
              /\ LiveOfAfter(last'.user_id) = {}
              /\ \A v \in Users \ {last'.user_id} : LiveOfAfter(v) = LiveOf(v)]_vars

\* get_user_sessions finds expired sessions of the user in the index and
\* returns the one created after them
C26_Witness ==
    /\ last.op = "get_user_sessions"
    /\ last.stale # {}
    /\ Cardinality(last.result) = 1
    /\ \A e \in last.result : \A sid \in last.stale : e.session_id > sid

(***************************************************************************)
(* Properties of the credential store (SpecStore).                         *)
(***************************************************************************)
StoreUnchanged == profiles' = profiles /\ cookies' = cookies

OthersUnchanged(p) ==
    \A q \in Profiles \ {p} :
        /\ cookies'[q] = cookies[q]
        /\ (q \in DOMAIN profiles') = (q \in DOMAIN profiles)
        /\ q \in DOMAIN profiles => profiles'[q] = profiles[q]

\* C6: a save_profile whose cookie list lacks a required cookie name raises
\* ValueError and leaves both tables as they were: no profile row and no
\* cookie row of any profile is created, changed or removed.
C6_SaveMissingRequiredFails ==
    [][ (last'.op = "save_profile" /\ REQUIRED_COOKIES \ last'.names # {})
          => (last'.result = "ValueError" /\ StoreUnchanged) ]_vars

\* C6 witness: a save lacking a required cookie was refused for a profile
\* that has stored cookies.
C6_Witness ==
    /\ last.op = "save_profile"
    /\ "__Secure-1PSIDTS" \notin last.names
    /\ "__Secure-1PSID" \in last.names
    /\ last.result = "ValueError"
    /\ last.profile \in DOMAIN profiles
    /\ cookies[last.profile] # NoCookies

\* C7: a save_profile that supplies every required name and no name twice
\* succeeds, and then the cookies stored under the profile are exactly the
\* supplied ones (names stored before and not supplied are gone) and the
\* rows of every other profile are untouched; a save_profile that fails,
\* also part-way on a name supplied twice, leaves both tables as they were.
C7_SaveReplacesAtomically ==
    [][ last'.op = "save_profile" =>
          /\ (REQUIRED_COOKIES \subseteq last'.names /\ ~last'.duplicate)
                => last'.result = "ok"
          /\ (REQUIRED_COOKIES \subseteq last'.names /\ last'.duplicate)
                => last'.result = "IntegrityError"
          /\ last'.result = "ok" =>
                /\ last'.profile \in DOMAIN profiles'
                /\ cookies'[last'.profile] = last'.given
                /\ OthersUnchanged(last'.profile)
          /\ last'.result # "ok" => StoreUnchanged ]_vars

\* C7 witness: a successful save dropped a cookie stored before (NID) that
\* the new list does not supply, while the other profile holds cookies.
C7_Witness ==
    /\ last.op = "save_profile"
    /\ last.result = "ok"
    /\ last.dropped = {"NID"}
    /\ "NID" \notin DOMAIN cookies[last.profile]
    /\ \E q \in Profiles \ {last.profile} : "NID" \in DOMAIN cookies[q]

\* the required cookies of p are all stored and none is past its expiry
Usable(p) ==
    \A n \in REQUIRED_COOKIES :
        /\ n \in DOMAIN cookies[p]
        /\ (cookies[p][n].expires = NoExpiry \/ cookies[p][n].expires >= now)

\* C8: get_gemini_cookies returns the map from exactly the required names
\* to their stored values when every required cookie has a row whose expiry
\* is null or not earlier than the current time, and None in every other
\* case.
C8_RequiredCookiesIffUsable ==
    last.op = "get_gemini_cookies" =>
        IF Usable(last.profile)
        THEN last.result =
                [n \in REQUIRED_COOKIES |-> cookies[last.profile][n].value]
        ELSE last.result = NoneObj

\* C8 witness: None is returned for a profile whose one required cookie has
\* expired while the other one never expires.
C8_Witness ==
    /\ last.op = "get_gemini_cookies"
    /\ last.result = NoneObj
    /\ REQUIRED_COOKIES \subseteq DOMAIN cookies[last.profile]
    /\ cookies[last.profile]["__Secure-1PSID"].expires # NoExpiry
    /\ cookies[last.profile]["__Secure-1PSID"].expires < now
    /\ cookies[last.profile]["__Secure-1PSIDTS"].expires = NoExpiry

\* C9: after delete_profile returned True no cookie row of the profile is
\* left, so load_profile and get_gemini_cookies both return None; a
\* delete_profile of a name without a profile row returns False.
C9_DeleteCascades ==
    last.op = "delete_profile" =>
        IF last.result
        THEN /\ cookies[last.profile] = NoCookies
             /\ load_profile(Database, last.profile) = NoneObj
             /\ get_gemini_cookies(Database, last.profile, now) = NoneObj
        ELSE last.profile \notin DOMAIN profiles

(***************************************************************************)
(* Properties of the concurrent callers (SpecStoreConc).                   *)
(***************************************************************************)
InWriteSection(t) == cm_task[t].pc \in WriteSection

\* C10: at most one write operation (save_profile or delete_profile) is
\* inside its database section at any time, and it is the holder of
\* self._lock; a task in a read operation never holds the lock and is not
\* kept out by it.
C10_WritesSerializedReadsLockFree ==
    /\ \A t, u \in CmTasks : InWriteSection(t) /\ InWriteSection(u) => t = u
    /\ \A t \in CmTasks : InWriteSection(t) => cm_lock = t
    /\ \A t \in CmTasks : cm_lock = t => cm_task[t].op \in WriteOps
    /\ \A t \in CmTasks :
          (cm_task[t].op \in ReadOps /\ cm_task[t].pc = "select")
             => ENABLED CmSelect(t)

\* C10 witness: a read ran its SELECT while a writer held the lock, and
\* that writer is still inside its transaction, about to commit.
C10_Witness ==
    \E r, w \in CmTasks :
        /\ cm_task[r].op \in ReadOps
        /\ cm_task[r].pc = "done"
        /\ cm_task[r].beside_writer
        /\ cm_lock = w
        /\ cm_task[w].pc = "commit"


\* C27: is_expired() is True for a cookie that is past its expiry or that has
\* no expiry at all (expires is None), and False for every other cookie.
C27_NoExpiryCountsAsExpired ==
    last.op = "is_expired" =>
        \A i \in DOMAIN last.given :
            last.result[i] <=>
                (\/ last.given[i].expires = NoExpiry
                 \/ last.at > last.given[i].expires)


\* C28: when create_profile_from_browser or switch_profile returns False, the
\* create and the switch endpoint answer HTTP 400.
C28_UnsuccessfulIs400 ==
    (InEndpoint("responded") /\ last.kind = "unsuccessful") =>
        last.status = 400


\* C29: once every init_with_profile, switch_profile and init_auto has
\* completed, each session stored in the conversation-session map was created
\* on the wrapper's current connection, also when a chat or chat_stream call
\* that started before the switch stores its session after it.
C29_SessionsOnCurrentConnection ==
    (/\ client # NoClient
     /\ \A t \in WTasks :
           w_task[t].pc \notin {"init_cookies", "close_wait", "init_wait"}) =>
        \A k \in DOMAIN chat_sessions : chat_sessions[k].conn = client


\* a pass-through stream whose upstream raised an exception of class Exception
UpstreamFailed(stream) ==
    /\ stream.op = "stream"
    /\ stream.framer = "_stream_gemini_sse"
    /\ stream.error # None
    /\ Handles(stream.error)

\* C30: when the upstream stream raises an exception during pass-through
\* streaming, before the first delta or between deltas, the step of the
\* failure leaves the frames emitted so far as they are, the only frames
\* that follow are the finish frame with finish_reason stop and then [DONE],
\* each of them ready to be emitted when the consumer asks for the next
\* frame, and the generator does not end with the exception.
C30_UpstreamFailureEndsStream ==
    [][UpstreamFailed(last') =>
          /\ last'.pc \in {"chunks", "finished", "returned"}
          /\ last'.pc = "chunks" => last'.todo = <<>>
          /\ last.error = None =>
                 /\ last'.frames = last.frames
                 /\ last'.pc = "chunks"
          /\ last.error # None =>
                 LET n == Len(last.frames)
                 IN  /\ Len(last'.frames) = n + 1
                     /\ SubSeq(last'.frames, 1, n) = last.frames
                     /\ \/ /\ last.pc = "chunks"
                           /\ last'.pc = "finished"
                           /\ IsFinish(last'.frames[n + 1])
                           /\ last'.frames[n + 1].finish_reason = "stop"
                        \/ /\ last.pc = "finished"
                           /\ last'.pc = "returned"
                           /\ last'.frames[n + 1] = DoneMarker]_vars

\* C30 witness: the upstream raised between the first and the second delta,
\* and the stream ended with the first delta's frame, the finish frame and
\* [DONE].
C30_Witness ==
    /\ InStream("returned")
    /\ UpstreamFailed(last)
    /\ last.upstream = << <<"w">>, <<".">> >>
    /\ Len(last.frames) = 3
    /\ IsContent(last.frames[1])
    /\ last.frames[2].finish_reason = "stop"
    /\ last.frames[3] = DoneMarker


\* the scan agrees with the extractor of SpecParse on what is found
ScanAgrees ==
    (last.op = "scan" /\ last.pc = "returned") =>
        (last.found <=>
            extract_json_with_tool_calls(last.parser, last.text, last.recovers)
                # NotExtracted)

\* C31: for every text the forward fallback scan decodes at no more than
\* MaxFallbackAttempts positions of "{", however many the text holds.
C31_FallbackDecodesCapped ==
    last.op = "scan" => last.attempts <= MaxFallbackAttempts


\* C32: a non-streaming response has finish_reason tool_calls and a
\* non-empty tool_calls list exactly when the request has tool definitions,
\* its tool_choice is not none and the extraction returned a call; every
\* other response has finish_reason stop, no tool_calls and the whole
\* upstream text as its content, unchanged.
C32_ToolCallsIffToolsAndExtraction ==
    (last.op = "chat_completion" /\ last.raised = None) =>
        LET extracted ==
                parse_tool_calls("openai_transforms", last.text, FALSE).tool_calls
            called == /\ last.tools = "[tool]"
                      /\ last.tool_choice # "none"
                      /\ extracted # <<>>
        IN  /\ called <=> last.message.finish_reason = "tool_calls"
            /\ called <=> last.message.tool_calls # <<>>
            /\ called => last.message.tool_calls = extracted
            /\ ~called =>
                   /\ last.message.finish_reason = "stop"
                   /\ last.message.content = Blocks(<<TextBlock(last.text)>>)

\* C32 witness: a reply that holds a well-formed tool-call envelope,
\* answered to a request without tools with the envelope in its content.
C32_Witness ==
    /\ last.op = "chat_completion"
    /\ last.tools = "None"
    /\ last.text = <<"x", "{", "K", "L", "}">>
    /\ last.message.finish_reason = "stop"
    /\ last.message.content = Blocks(<<TextBlock(last.text)>>)


\* parts a..b put together
Piece(parts, a, b) == Flatten(SubSeq(parts, a, b))

\* the piece a..b is due: long enough or closed by sentence punctuation,
\* and not blank
Due(parts, a, b) ==
    /\ \/ TextLength(Piece(parts, a, b)) >= ChunkLength
       \/ EndsSentence(parts[b])
    /\ Strip(Piece(parts, a, b)) # <<>>

\* C33: the chunks are runs of consecutive parts, in order; a chunk ends at
\* the first part where the accumulated piece is at least ChunkLength long
\* or the part ends with sentence punctuation; no chunk is empty or
\* whitespace-only; what is left after the last such part is one more chunk
\* unless it is empty or whitespace-only, and then it is dropped.
C33_ChunksAtFirstDuePart ==
    last.op = "chunk_sentence_parts" =>
        LET parts == last.parts
            chunks == last.chunks
            n == Len(chunks)
            m == Len(parts)
        IN  /\ \A i \in 1..n : Strip(chunks[i]) # <<>>
            /\ \E ends \in [1..n -> 1..m] :
                  LET from(i) == IF i = 1 THEN 1 ELSE ends[i - 1] + 1
                      rest == IF n = 0 THEN 1 ELSE ends[n] + 1
                  IN  /\ \A i \in 1..n :
                             /\ from(i) <= ends[i]
                             /\ chunks[i] = Piece(parts, from(i), ends[i])
                             /\ \A b \in from(i)..(ends[i] - 1) :
                                    ~Due(parts, from(i), b)
                             /\ \/ Due(parts, from(i), ends[i])
                                \/ i = n /\ ends[i] = m
                      /\ \A b \in rest..m : ~Due(parts, rest, b)
                      /\ Strip(Piece(parts, rest, m)) = <<>>

\* C33 witness: the parts "End. " and "   " give the one chunk "End. ".
C33_Witness ==
    /\ last.op = "chunk_sentence_parts"
    /\ last.parts = << <<"w", ".", " ">>, <<" ">> >>
    /\ last.chunks = << <<"w", ".", " ">> >>


\* C34: a call of the wrapped function invokes it at most max_attempts
\* times; it returns at the first invocation that succeeds; an exception
\* outside `exceptions` leaves at once; after max_attempts failures inside
\* `exceptions` the last of them is raised; every sleep stands between two
\* invocations, so there are at most max_attempts - 1 of them and none after
\* the last invocation; and each delay is the one before it times
\* backoff_factor, the first being initial_delay.
C34_AtMostNAttemptsWithBackoff ==
    last.op = "retry" =>
        LET calls == Len(last.outcomes)
            k == Len(last.events)
            n == last.max_attempts
        IN  /\ calls <= n
            /\ \A i \in 1..(calls - 1) : last.outcomes[i] = "in exceptions"
            /\ Len(last.sleeps) <= calls
            /\ Len(last.sleeps) < n \/ last.sleeps = <<>>
            /\ \A i \in 1..k :
                   last.events[i] = "sleep" =>
                       /\ i > 1
                       /\ last.events[i - 1] = "call"
                       /\ last.pc \in {"returned", "raised"} => i < k
            /\ \A i \in 1..Len(last.sleeps) :
                   last.sleeps[i] = IF i = 1 THEN last.initial_delay
                                    ELSE last.sleeps[i - 1] * last.backoff_factor
            /\ last.pc = "returned" =>
                   /\ calls >= 1
                   /\ last.outcomes[calls] = "ok"
            /\ last.pc = "raised" =>
                   \/ /\ calls >= 1
                      /\ last.outcomes[calls] = "not in exceptions"
                      /\ last.raised = [class |-> "not in exceptions",
                                        attempt |-> calls - 1]
                   \/ /\ calls = n
                      /\ n >= 1
                      /\ last.outcomes[calls] = "in exceptions"
                      /\ last.raised = [class |-> "in exceptions",
                                        attempt |-> n - 1]
                      /\ Len(last.sleeps) = n - 1
                   \/ /\ n = 0
                      /\ calls = 0
                      /\ last.raised.class = "RuntimeError"

\* C34 witness: three attempts that all failed inside `exceptions`, two
\* sleeps of 2 and 4 between them, and the third exception raised.
C34_Witness ==
    /\ InRetry("raised")
    /\ last.max_attempts = 3
    /\ last.outcomes = <<"in exceptions", "in exceptions", "in exceptions">>
    /\ last.sleeps = <<2, 4>>
    /\ last.raised.attempt = 2


\* C35: for every request message_transforms.collapse_messages and
\* openai_transforms.collapse_messages return the same prompt string.
C35_BuildersAgree ==
    HasCollapsed =>
        collapse_messages("message_transforms", last.messages, last.tools)
            = collapse_messages("openai_transforms", last.messages, last.tools)

\* the complete cookie sets the concurrent callers can store: the rows of a
\* list that save_profile accepts and executemany inserts in full
CompleteSets ==
    { AsRows(l) : l \in { k \in CmLists :
                            MissingRequired(k) = {} /\ ~HasDuplicate(k) } }

\* C36: a read (load_profile, get_gemini_cookies) that runs while a
\* save_profile of the same profile is in progress sees the complete set
\* stored before the save or the complete new set, never the rows deleted
\* and not yet inserted: the stored rows of a profile change only in the
\* commit of a save, to the whole list of that save; a read returns the
\* reading of the rows committed when its SELECT runs; a profile returned by
\* load_profile carries a complete set, and get_gemini_cookies of a stored
\* profile returns what a complete set yields at that time.
C36_ReadsSeeCompleteSets ==
    [][ /\ \A p \in CmProfiles :
              cookies'[p] # cookies[p] =>
                 \E w \in CmTasks :
                    /\ cm_task[w].op = "save_profile"
                    /\ cm_task[w].profile = p
                    /\ cm_task[w].pc = "commit"
                    /\ cm_task'[w].pc = "exit"
                    /\ cookies'[p] = AsRows(cm_task[w].list)
        /\ \A r \in CmTasks :
              (cm_task[r].pc = "select" /\ cm_task'[r].pc = "done") =>
                 LET p   == cm_task[r].profile
                     res == cm_task'[r].result
                 IN  /\ cm_task[r].op = "load_profile" =>
                          /\ res = load_profile(Database, p)
                          /\ res # NoneObj => res.cookies \in CompleteSets
                     /\ cm_task[r].op = "get_gemini_cookies" =>
                          /\ res = get_gemini_cookies(Database, p, now)
                          /\ p \in DOMAIN profiles =>
                                \E rows \in CompleteSets :
                                   res = get_gemini_cookies(
                                            [profiles |-> profiles,
                                             cookies |-> (p :> rows)],
                                            p, now) ]_vars

\* C36 witness: get_gemini_cookies returned the credentials of a usable
\* profile while a save_profile of that profile stood before its commit with
\* the old rows deleted and a different set inserted in its transaction.
C36_Witness ==
    \E r, w \in CmTasks :
        /\ cm_task[r].op = "get_gemini_cookies"
        /\ cm_task[r].pc = "done"
        /\ cm_task[r].beside_writer
        /\ cm_task[r].result # NoneObj
        /\ cm_lock = w
        /\ cm_task[w].op = "save_profile"
        /\ cm_task[w].profile = cm_task[r].profile
        /\ cm_task[w].pc = "commit"
        /\ cm_task[w].txn.cookies[cm_task[w].profile]
              # cookies[cm_task[w].profile]

\* C37: whenever no call on the wrapper is in progress and
\* get_current_profile() returns a name, the wrapper holds an open connection
\* that was opened with the credentials of that profile; after close(),
\* after an init_with_profile whose connection fails to open and after a
\* failed init_auto it returns None.
C37_CurrentProfileHasConnection ==
    ((\A t \in WTasks : ~Active(t)) /\ get_current_profile # None) =>
        /\ client # NoClient
        /\ conns[client].status = "open"
        /\ conns[client].profile = get_current_profile

\* where a task stands inside refresh_profile
RefreshAwaits == {"rf_load", "rf_extract", "rf_save"}

\* C38: a refresh that does not succeed (the extraction raised, also on its
\* timeout, gave no cookies, or gave a list lacking a required cookie)
\* reports False without raising, so that the caller re-raises its own first
\* error; it leaves the stored profile and its cookies, the wrapper's
\* client, its active profile and its session map as they were.  A list
\* that is empty or lacks a required cookie never reaches the transaction
\* of save_profile, and a step of the refresh changes the store only when
\* the refresh succeeds.
C38_FailedRefreshChangesNothing ==
    [][ \A t \in WTasks :
          /\ (w_task[t].pc \in RefreshAwaits
                  /\ w_task'[t].refresh_ok = "False") =>
                /\ w_task'[t].pc = "done"
                /\ w_task'[t].result = "e1"
                /\ UNCHANGED <<profiles, cookies, client, profile_name,
                               chat_sessions>>
          /\ (w_task[t].pc = "rf_extract" /\ w_task'[t].pc = "rf_save") =>
                /\ w_task'[t].list # <<>>
                /\ MissingRequired(w_task'[t].list) = {}
                /\ UNCHANGED <<profiles, cookies, client, profile_name,
                               chat_sessions>>
          /\ (w_task[t].pc \in RefreshAwaits /\ w_task'[t] # w_task[t]
                  /\ <<profiles, cookies>>' # <<profiles, cookies>>) =>
                /\ w_task'[t].refresh_ok = "True"
                /\ REQUIRED_COOKIES \subseteq DOMAIN cookies'[w_task[t].name]
                /\ UNCHANGED <<client, profile_name, chat_sessions>> ]_vars

\* C38 witness: generate ended with its first error after a refresh of the
\* stored active profile reported False, the wrapper still connected and
\* holding a conversation session.
C38_Witness ==
    \E t \in WTasks :
        /\ w_task[t].op = "generate"
        /\ w_task[t].pc = "done"
        /\ w_task[t].refresh_ok = "False"
        /\ w_task[t].result = "e1"
        /\ profile_name \in DOMAIN profiles
        /\ get_gemini_cookies(Database, profile_name, now) # NoneObj
        /\ client # NoClient
        /\ DOMAIN chat_sessions # {}

\* C39: a profile that stays stored keeps its created_at through every
\* save_profile; a successful save_profile sets updated_at to the time of
\* that save (and created_at too when it creates the profile); created_at <=
\* updated_at in every stored profile; and a profile gets a created_at or a
\* new updated_at only by a successful save_profile, so that a new
\* created_at needs the profile deleted first.
C39_CreatedKeptUpdatedLatest ==
    [][ \A p \in Profiles :
          /\ (p \in DOMAIN profiles /\ p \in DOMAIN profiles') =>
                profiles'[p].created_at = profiles[p].created_at
          /\ (last'.op = "save_profile" /\ last'.profile = p
                  /\ last'.result = "ok") =>
                /\ p \in DOMAIN profiles'
                /\ profiles'[p].updated_at = now
                /\ p \notin DOMAIN profiles => profiles'[p].created_at = now
          /\ p \in DOMAIN profiles' =>
                profiles'[p].created_at <= profiles'[p].updated_at
          /\ (/\ p \in DOMAIN profiles'
              /\ \/ p \notin DOMAIN profiles
                 \/ profiles'[p].updated_at # profiles[p].updated_at) =>
                /\ last'.op = "save_profile"
                /\ last'.profile = p
                /\ last'.result = "ok" ]_vars

\* C39 witness: a successful save_profile of a profile created earlier: its
\* created_at is older than its updated_at, which is the time of this save.
C39_Witness ==
    /\ last.op = "save_profile"
    /\ last.result = "ok"
    /\ last.profile \in DOMAIN profiles
    /\ profiles[last.profile].created_at < profiles[last.profile].updated_at
    /\ profiles[last.profile].updated_at = now

\* C40: current_session_id is None or the id of a session that get_session
\* returns, also after clear_user_sessions removed the current session,
\* after the current session expired and after set_session with an id that
\* has no session.
C40_CurrentSessionExists ==
    sm.current_session_id # 0 => get_session(sm.current_session_id) # NoneObj

====
